---- MODULE Spec2Model ----
(***************************************************************************)
(* Heuristic scoring engine of the web page usability analyser.            *)
(*                                                                         *)
(* State: the shared HeuristicAnalyzer (its max_scores table), the two     *)
(* feature dictionaries handed to analyze (html_analysis, image_analysis)  *)
(* and the report analyze returned for them.                               *)
(*                                                                         *)
(* Representation of Python values:                                        *)
(*   dict            a function whose DOMAIN is the set of present keys    *)
(*   d.get(k, dflt)  Get(d, k, dflt)                                       *)
(*   list            a sequence                                            *)
(*   float ratio     alt_text_coverage is held in hundredths (0.8 = 80)    *)
(*   percentage      (score / max_score) * 100 is held in sixtieths of a   *)
(*                   percent, score * 6000 / max_score, which is a whole   *)
(*                   number for every maximum of the table (70 = 4200)     *)
(*   ordered dict    analysis_result["categories"] is the sequence of its  *)
(*                   <<key, value>> items in insertion order               *)
(*   text literals   every description / recommendation literal of the     *)
(*                   source is a token ("rec_ia_001"); two tokens are      *)
(*                   equal exactly when the source literals are equal      *)
(*                   (the 26 rule texts and 3 generic texts are pairwise   *)
(*                   different in the source)                              *)
(***************************************************************************)
EXTENDS Integers, Sequences, FiniteSets, TLC

VARIABLES max_scores, html_analysis, image_analysis, pc, result,
          analysis_result, summary, requests, running, calls

vars == <<max_scores, html_analysis, image_analysis, pc, result,
          analysis_result, summary, requests, running, calls>>

\* The dictionary get_analysis_summary is given and the summary it returns.
summary_vars == <<analysis_result, summary>>

\* The analyze_website requests in progress and the one that holds the event
\* loop for its analyses.
web_vars == <<requests, running>>

\* The analyze calls in progress on the shared analyzer.
conc_vars == <<calls>>

\* Number of categories whose features may follow another profile than the
\* rest of the input.
MaxMixed == 2

\* Number of analyze calls that may be in progress at once.
MaxCalls == 2

(***************************************************************************)
(* Python dict helpers                                                     *)
(***************************************************************************)
EmptyDict == << >>

Get(d, k, default) == IF k \in DOMAIN d THEN d[k] ELSE default

\* d[k] raises KeyError when k is missing.
KeyError(d, k) == k \notin DOMAIN d

Max(a, b) == IF a >= b THEN a ELSE b

(***************************************************************************)
(* Categories and the analyzer's table of maxima                           *)
(***************************************************************************)
Categories ==
  <<"information_architecture", "cta_visibility", "readability",
    "form_ux", "accessibility", "performance">>

CategorySet == {Categories[i] : i \in 1..Len(Categories)}

\* A table whose performance maximum is 4.
InitMaxScoresPerformance4 ==
  [information_architecture |-> 30,
   cta_visibility |-> 20,
   readability |-> 20,
   form_ux |-> 15,
   accessibility |-> 10,
   performance |-> 4]

InitMaxScores ==
  [information_architecture |-> 30,
   cta_visibility |-> 20,
   readability |-> 20,
   form_ux |-> 15,
   accessibility |-> 10,
   performance |-> 5]

(***************************************************************************)
(* AnalysisRule and the shared "rules.append(rule); score += impact" step  *)
(***************************************************************************)
AnalysisRule(rule_id, category, description, severity, passed, score_impact, recommendation) ==
  [rule_id |-> rule_id,
   category |-> category,
   description |-> description,
   severity |-> severity,
   passed |-> passed,
   score_impact |-> score_impact,
   recommendation |-> recommendation]

StartEval(ms, category) == [rules |-> << >>, score |-> ms[category]]

FireTwice(acc, cond, rule) ==
  IF cond
  THEN [rules |-> Append(acc.rules, rule),
        score |-> acc.score + rule.score_impact + rule.score_impact]
  ELSE acc

Fire(acc, cond, rule) ==
  IF cond
  THEN [rules |-> Append(acc.rules, rule),
        score |-> acc.score + rule.score_impact]
  ELSE acc

CategoryResultUnclamped(acc, ms, category) ==
  [score |-> acc.score,
   rules |-> acc.rules,
   max_score |-> ms[category]]

\* return {"score": max(score, 0), "rules": rules, "max_score": ...}
CategoryResult(acc, ms, category) ==
  [score |-> Max(acc.score, 0),
   rules |-> acc.rules,
   max_score |-> ms[category]]

(***************************************************************************)
(* _analyze_information_architecture                                       *)
(***************************************************************************)
TooManyDuplicateLinksFrom5(duplicate_links) == duplicate_links >= 5

\* if duplicate_links > 5
TooManyDuplicateLinks(duplicate_links) == duplicate_links > 5

analyze_information_architecture(ms, html, image) ==
  LET heading_analysis == Get(html, "heading_analysis", EmptyDict)
      has_h1 == Get(heading_analysis, "has_h1", FALSE)
      multiple_h1 == Get(heading_analysis, "multiple_h1", FALSE)
      hierarchy_issues == Get(heading_analysis, "hierarchy_issues", << >>)
      nav_analysis == Get(html, "navigation_analysis", EmptyDict)
      has_breadcrumbs == Get(nav_analysis, "has_breadcrumbs", FALSE)
      duplicate_links == Get(nav_analysis, "duplicate_link_texts", 0)
      a0 == StartEval(ms, "information_architecture")
      a1 == Fire(a0, ~has_h1,
                 AnalysisRule("ia_001", "information_architecture", <<"desc_ia_001">>,
                              "high", FALSE, -5, "rec_ia_001"))
      a2 == Fire(a1, multiple_h1,
                 AnalysisRule("ia_002", "information_architecture", <<"desc_ia_002">>,
                              "medium", FALSE, -3, "rec_ia_002"))
      a3 == Fire(a2, Len(hierarchy_issues) > 0,
                 AnalysisRule("ia_003", "information_architecture", <<"desc_ia_003">>,
                              "medium", FALSE, -4, "rec_ia_003"))
      a4 == Fire(a3, ~has_breadcrumbs,
                 AnalysisRule("ia_004", "information_architecture", <<"desc_ia_004">>,
                              "low", FALSE, -2, "rec_ia_004"))
      a5 == Fire(a4, TooManyDuplicateLinks(duplicate_links),
                 AnalysisRule("ia_005", "information_architecture", <<"desc_ia_005">>,
                              "medium", FALSE, -3, "rec_ia_005"))
  IN CategoryResult(a5, ms, "information_architecture")

(***************************************************************************)
(* _analyze_cta_visibility                                                 *)
(***************************************************************************)
TooFewButtonsUpTo2(button_candidates) == button_candidates <= 2

\* if button_candidates < 2
TooFewButtons(button_candidates) == button_candidates < 2

DefaultHasGoodContrastFalse == FALSE

\* contrast_analysis.get("has_good_contrast", True): the value used when the
\* key is missing
DefaultHasGoodContrast == TRUE

analyze_cta_visibility(ms, html, image) ==
  LET above_fold == Get(image, "above_fold_analysis", EmptyDict)
      has_cta_above_fold == Get(above_fold, "has_cta_above_fold", FALSE)
      ocr_analysis == Get(image, "ocr_analysis", EmptyDict)
      button_texts == Get(ocr_analysis, "button_texts", << >>)
      contrast_analysis == Get(image, "contrast_analysis", EmptyDict)
      has_good_contrast == Get(contrast_analysis, "has_good_contrast",
                               DefaultHasGoodContrast)
      element_detection == Get(image, "element_detection", EmptyDict)
      button_candidates == Get(element_detection, "button_candidates", 0)
      a0 == StartEval(ms, "cta_visibility")
      a1 == Fire(a0, ~has_cta_above_fold,
                 AnalysisRule("cta_001", "cta_visibility", <<"desc_cta_001">>,
                              "high", FALSE, -8, "rec_cta_001"))
      a2 == Fire(a1, Len(button_texts) = 0,
                 AnalysisRule("cta_002", "cta_visibility", <<"desc_cta_002">>,
                              "medium", FALSE, -5, "rec_cta_002"))
      a3 == Fire(a2, ~has_good_contrast,
                 AnalysisRule("cta_003", "cta_visibility", <<"desc_cta_003">>,
                              "medium", FALSE, -4, "rec_cta_003"))
      a4 == Fire(a3, TooFewButtons(button_candidates),
                 AnalysisRule("cta_004", "cta_visibility", <<"desc_cta_004">>,
                              "low", FALSE, -3, "rec_cta_004"))
  IN CategoryResult(a4, ms, "cta_visibility")

(***************************************************************************)
(* _analyze_readability: read_001 / read_002 are an if / elif pair         *)
(***************************************************************************)
TitleTooLongFrom60(title_length) == title_length >= 60

\* elif title_length > 60
TitleTooLong(title_length) == title_length > 60

analyze_readability(ms, html, image) ==
  LET meta_analysis == Get(html, "meta_analysis", EmptyDict)
      title_length == Get(meta_analysis, "title_length", 0)
      description_length == Get(meta_analysis, "description_length", 0)
      content_analysis == Get(html, "content_analysis", EmptyDict)
      avg_paragraph_length == Get(content_analysis, "avg_paragraph_length", 0)
      visual_density == Get(image, "visual_density", EmptyDict)
      is_cluttered == Get(visual_density, "is_cluttered", FALSE)
      has_sufficient_whitespace == Get(visual_density, "has_sufficient_whitespace", TRUE)
      a0 == StartEval(ms, "readability")
      a1 == Fire(a0, title_length = 0,
                 AnalysisRule("read_001", "readability", <<"desc_read_001">>,
                              "high", FALSE, -5, "rec_read_001"))
      a2 == Fire(a1, title_length # 0 /\ TitleTooLong(title_length),
                 AnalysisRule("read_002", "readability", <<"desc_read_002">>,
                              "low", FALSE, -2, "rec_read_002"))
      a3 == Fire(a2, description_length = 0,
                 AnalysisRule("read_003", "readability", <<"desc_read_003">>,
                              "medium", FALSE, -3, "rec_read_003"))
      a4 == Fire(a3, avg_paragraph_length > 200,
                 AnalysisRule("read_004", "readability", <<"desc_read_004">>,
                              "low", FALSE, -2, "rec_read_004"))
      a5 == Fire(a4, is_cluttered,
                 AnalysisRule("read_005", "readability", <<"desc_read_005">>,
                              "medium", FALSE, -4, "rec_read_005"))
      a6 == Fire(a5, ~has_sufficient_whitespace,
                 AnalysisRule("read_006", "readability", <<"desc_read_006">>,
                              "medium", FALSE, -4, "rec_read_006"))
  IN CategoryResult(a6, ms, "readability")

(***************************************************************************)
(* _analyze_form_ux: the four rules are evaluated only when form_count > 0 *)
(* The description of form_001 is an f-string holding unlabeled_count.     *)
(* input_candidates < input_count * 0.5 over integers is                   *)
(* 2 * input_candidates < input_count.                                     *)
(***************************************************************************)
HasFormsAlways(form_count) == form_count >= 0

\* if form_count > 0
HasForms(form_count) == form_count > 0

FewInputCandidatesOrHalf(input_candidates, input_count) ==
  2 * input_candidates <= input_count

\* if input_candidates < input_count * 0.5
FewInputCandidates(input_candidates, input_count) ==
  2 * input_candidates < input_count

analyze_form_ux(ms, html, image) ==
  LET form_analysis == Get(html, "form_analysis", EmptyDict)
      form_count == Get(form_analysis, "form_count", 0)
      unlabeled_count == Get(form_analysis, "unlabeled_count", 0)
      has_error_handling == Get(form_analysis, "has_error_handling", FALSE)
      required_fields == Get(form_analysis, "required_fields", 0)
      input_count == Get(form_analysis, "input_count", 1)
      element_detection == Get(image, "element_detection", EmptyDict)
      input_candidates == Get(element_detection, "input_candidates", 0)
      a0 == StartEval(ms, "form_ux")
      a1 == Fire(a0, unlabeled_count > 0,
                 AnalysisRule("form_001", "form_ux", <<unlabeled_count, "desc_form_001">>,
                              "high", FALSE, -6, "rec_form_001"))
      a2 == Fire(a1, ~has_error_handling,
                 AnalysisRule("form_002", "form_ux", <<"desc_form_002">>,
                              "medium", FALSE, -4, "rec_form_002"))
      a3 == Fire(a2, required_fields = 0 /\ input_count > 2,
                 AnalysisRule("form_003", "form_ux", <<"desc_form_003">>,
                              "low", FALSE, -2, "rec_form_003"))
      a4 == Fire(a3, FewInputCandidates(input_candidates, input_count),
                 AnalysisRule("form_004", "form_ux", <<"desc_form_004">>,
                              "low", FALSE, -3, "rec_form_004"))
  IN CategoryResult(IF HasForms(form_count) THEN a4 ELSE a0, ms, "form_ux")

(***************************************************************************)
(* _analyze_accessibility: alt_coverage < 0.8 is, in hundredths, < 80      *)
(***************************************************************************)
LowAltCoverageOrEqual(alt_coverage) == alt_coverage <= 80

\* if alt_coverage < 0.8
LowAltCoverage(alt_coverage) == alt_coverage < 80

ReadIsLowContrastFromGoodContrast(contrast_analysis) ==
  ~Get(contrast_analysis, "has_good_contrast", TRUE)

\* is_low_contrast = contrast_analysis.get("is_low_contrast", False)
ReadIsLowContrast(contrast_analysis) == Get(contrast_analysis, "is_low_contrast", FALSE)

analyze_accessibility(ms, html, image) ==
  LET accessibility_analysis == Get(html, "accessibility_analysis", EmptyDict)
      alt_coverage == Get(accessibility_analysis, "alt_text_coverage", 100)
      aria_elements == Get(accessibility_analysis, "aria_elements_count", 0)
      landmarks == Get(accessibility_analysis, "landmark_roles_count", 0)
      contrast_analysis == Get(image, "contrast_analysis", EmptyDict)
      is_low_contrast == ReadIsLowContrast(contrast_analysis)
      a0 == StartEval(ms, "accessibility")
      a1 == Fire(a0, LowAltCoverage(alt_coverage),
                 AnalysisRule("a11y_001", "accessibility", <<"desc_a11y_001">>,
                              "medium", FALSE, -4, "rec_a11y_001"))
      a2 == Fire(a1, aria_elements = 0,
                 AnalysisRule("a11y_002", "accessibility", <<"desc_a11y_002">>,
                              "low", FALSE, -2, "rec_a11y_002"))
      a3 == Fire(a2, landmarks = 0,
                 AnalysisRule("a11y_003", "accessibility", <<"desc_a11y_003">>,
                              "low", FALSE, -2, "rec_a11y_003"))
      a4 == Fire(a3, is_low_contrast,
                 AnalysisRule("a11y_004", "accessibility", <<"desc_a11y_004">>,
                              "medium", FALSE, -4, "rec_a11y_004"))
  IN CategoryResult(a4, ms, "accessibility")

(***************************************************************************)
(* _analyze_performance: total_images is read from accessibility_analysis  *)
(***************************************************************************)
TooManyImagesFrom10(total_images) == total_images >= 10

TooManyImagesFromZero(total_images) == total_images >= 0

\* if total_images > 10
TooManyImages(total_images) == total_images > 10

analyze_performance(ms, html, image) ==
  LET meta_analysis == Get(html, "meta_analysis", EmptyDict)
      structured_data_count == Get(meta_analysis, "structured_data_count", 0)
      total_images == Get(Get(html, "accessibility_analysis", EmptyDict), "total_images", 0)
      has_og_image == Get(meta_analysis, "has_og_image", FALSE)
      a0 == StartEval(ms, "performance")
      a1 == Fire(a0, structured_data_count = 0,
                 AnalysisRule("perf_001", "performance", <<"desc_perf_001">>,
                              "low", FALSE, -1, "rec_perf_001"))
      a2 == Fire(a1, TooManyImages(total_images),
                 AnalysisRule("perf_002", "performance", <<"desc_perf_002">>,
                              "low", FALSE, -2, "rec_perf_002"))
      a3 == Fire(a2, ~has_og_image,
                 AnalysisRule("perf_003", "performance", <<"desc_perf_003">>,
                              "low", FALSE, -1, "rec_perf_003"))
  IN CategoryResult(a3, ms, "performance")

(***************************************************************************)
(* _generate_recommendations                                               *)
(***************************************************************************)
severity_order(severity) ==
  CASE severity = "high" -> 3
    [] severity = "medium" -> 2
    [] severity = "low" -> 1
    [] OTHER -> 0

\* list.sort(key=..., reverse=True): stable, descending by key.  The element
\* is inserted behind every element whose key is not smaller.
\* An insertion that puts the element before the elements of equal key.
RECURSIVE InsertByKeyDescBeforeEqual(_, _)
InsertByKeyDescBeforeEqual(sorted, rule) ==
  IF sorted = << >> THEN <<rule>>
  ELSE IF severity_order(Head(sorted).severity) > severity_order(rule.severity)
       THEN <<Head(sorted)>> \o InsertByKeyDescBeforeEqual(Tail(sorted), rule)
       ELSE <<rule>> \o sorted

RECURSIVE InsertByKeyDesc(_, _)
InsertByKeyDesc(sorted, rule) ==
  IF sorted = << >> THEN <<rule>>
  ELSE IF severity_order(Head(sorted).severity) >= severity_order(rule.severity)
       THEN <<Head(sorted)>> \o InsertByKeyDesc(Tail(sorted), rule)
       ELSE <<rule>> \o sorted

RECURSIVE SortBySeverityDesc(_)
SortBySeverityDesc(rules) ==
  IF rules = << >> THEN << >>
  ELSE InsertByKeyDesc(SortBySeverityDesc(SubSeq(rules, 1, Len(rules) - 1)),
                       rules[Len(rules)])

PrefixWhole(s, n) == s

\* s[:n]
Prefix(s, n) == SubSeq(s, 1, IF Len(s) < n THEN Len(s) ELSE n)

InSeq(x, s) == \E i \in 1..Len(s) : s[i] = x

generic_recommendations == <<"rec_generic_contrast", "rec_generic_top", "rec_generic_navigation">>

\* for rec in generic_recommendations: break at 10, append when not present
BackfillNothing(recommendations, pool) == recommendations

\* A backfill that stops as soon as the list holds 3 entries.
RECURSIVE BackfillUpTo3(_, _)
BackfillUpTo3(recommendations, pool) ==
  IF pool = << >> \/ Len(recommendations) >= 3 THEN recommendations
  ELSE BackfillUpTo3(IF InSeq(Head(pool), recommendations)
                     THEN recommendations
                     ELSE Append(recommendations, Head(pool)),
                     Tail(pool))

RECURSIVE Backfill(_, _)
Backfill(recommendations, pool) ==
  IF pool = << >> \/ Len(recommendations) >= 10 THEN recommendations
  ELSE Backfill(IF InSeq(Head(pool), recommendations)
                THEN recommendations
                ELSE Append(recommendations, Head(pool)),
                Tail(pool))

generate_recommendations(rules) ==
  LET failed_rules == SortBySeverityDesc(SelectSeq(rules, LAMBDA r : ~r.passed))
      top == Prefix(failed_rules, 10)
      recommendations == [i \in 1..Len(top) |-> top[i].recommendation]
  IN IF Len(recommendations) < 3
     THEN Backfill(recommendations, generic_recommendations)
     ELSE recommendations

(***************************************************************************)
(* HeuristicScore and HeuristicAnalyzer.analyze                            *)
(***************************************************************************)
HeuristicScore(ia, cta, readability, form, a11y, perf) ==
  [information_architecture |-> ia,
   cta_visibility |-> cta,
   readability |-> readability,
   form_ux |-> form,
   accessibility |-> a11y,
   performance |-> perf]

total_score_without_performance(scores) ==
  scores.information_architecture + scores.cta_visibility + scores.readability
    + scores.form_ux + scores.accessibility

total_score(scores) ==
  scores.information_architecture + scores.cta_visibility + scores.readability
    + scores.form_ux + scores.accessibility + scores.performance

\* The evaluator analyze calls for each category.
evaluate(category, ms, html, image) ==
  CASE category = "information_architecture" -> analyze_information_architecture(ms, html, image)
    [] category = "cta_visibility" -> analyze_cta_visibility(ms, html, image)
    [] category = "readability" -> analyze_readability(ms, html, image)
    [] category = "form_ux" -> analyze_form_ux(ms, html, image)
    [] category = "accessibility" -> analyze_accessibility(ms, html, image)
    [] category = "performance" -> analyze_performance(ms, html, image)

collect_all_rules_performance_first(info_arch_result, cta_result, readability_result, form_result, accessibility_result, performance_result) ==
  performance_result.rules \o info_arch_result.rules \o cta_result.rules
    \o readability_result.rules \o form_result.rules \o accessibility_result.rules

\* all_rules = []; all_rules.extend(...) six times
collect_all_rules(info_arch_result, cta_result, readability_result, form_result, accessibility_result, performance_result) ==
  info_arch_result.rules \o cta_result.rules \o readability_result.rules
    \o form_result.rules \o accessibility_result.rules \o performance_result.rules

\* The report analyze assembles from the six category results.
build_report(info_arch_result, cta_result, readability_result, form_result, accessibility_result, performance_result) ==
  LET scores == HeuristicScore(info_arch_result.score, cta_result.score,
                               readability_result.score, form_result.score,
                               accessibility_result.score, performance_result.score)
      all_rules == collect_all_rules(info_arch_result, cta_result, readability_result,
                                     form_result, accessibility_result,
                                     performance_result)
  IN [scores |-> scores,
      rules |-> all_rules,
      recommendations |-> generate_recommendations(all_rules),
      total_score |-> total_score(scores),
      category_details |->
        [information_architecture |-> info_arch_result,
         cta_visibility |-> cta_result,
         readability |-> readability_result,
         form_ux |-> form_result,
         accessibility |-> accessibility_result,
         performance |-> performance_result]]

analyze(ms, html, image) ==
  build_report(analyze_information_architecture(ms, html, image),
               analyze_cta_visibility(ms, html, image),
               analyze_readability(ms, html, image),
               analyze_form_ux(ms, html, image),
               analyze_accessibility(ms, html, image),
               analyze_performance(ms, html, image))

(***************************************************************************)
(* AnalysisService: the "categories" mapping analyze_website builds from   *)
(* the report, and the table of maxima local to get_analysis_summary       *)
(***************************************************************************)
categories(heuristic_result) ==
  [information_architecture |-> heuristic_result.scores.information_architecture,
   cta_visibility |-> heuristic_result.scores.cta_visibility,
   readability |-> heuristic_result.scores.readability,
   form_ux |-> heuristic_result.scores.form_ux,
   accessibility |-> heuristic_result.scores.accessibility,
   performance |-> heuristic_result.scores.performance]

summary_max_scores_ia25 ==
  [information_architecture |-> 25,
   cta_visibility |-> 20,
   readability |-> 20,
   form_ux |-> 15,
   accessibility |-> 10,
   performance |-> 5]

summary_max_scores ==
  [information_architecture |-> 30,
   cta_visibility |-> 20,
   readability |-> 20,
   form_ux |-> 15,
   accessibility |-> 10,
   performance |-> 5]

\* The items of the "categories" dict literal, in the order it is written.
category_items(heuristic_result) ==
  [i \in 1..Len(Categories) |-> <<Categories[i], categories(heuristic_result)[Categories[i]]>>]

(***************************************************************************)
(* AnalysisService.get_analysis_summary                                    *)
(***************************************************************************)
score_level_excellent_above_80(total) ==
  IF total > 80 THEN "excellent"
  ELSE IF total >= 60 THEN "good"
  ELSE IF total >= 40 THEN "fair"
  ELSE "poor"

\* if total >= 80 ... elif >= 60 ... elif >= 40 ... else
score_level(total) ==
  IF total >= 80 THEN "excellent"
  ELSE IF total >= 60 THEN "good"
  ELSE IF total >= 40 THEN "fair"
  ELSE "poor"

score_message(total) ==
  IF total >= 80 THEN "msg_excellent"
  ELSE IF total >= 60 THEN "msg_good"
  ELSE IF total >= 40 THEN "msg_fair"
  ELSE "msg_poor"

\* The entry appended to category_scores for one item of categories.
category_score(category, score) ==
  [category |-> category,
   score |-> score,
   max_score |-> summary_max_scores[category],
   percentage |-> (score * 6000) \div summary_max_scores[category]]

\* category_scores.sort(key=percentage, reverse=True): stable, descending.
RECURSIVE InsertByPercentageDesc(_, _)
InsertByPercentageDesc(sorted, cat) ==
  IF sorted = << >> THEN <<cat>>
  ELSE IF Head(sorted).percentage >= cat.percentage
       THEN <<Head(sorted)>> \o InsertByPercentageDesc(Tail(sorted), cat)
       ELSE <<cat>> \o sorted

RECURSIVE SortByPercentageDesc(_)
SortByPercentageDesc(category_scores) ==
  IF category_scores = << >> THEN << >>
  ELSE InsertByPercentageDesc(
         SortByPercentageDesc(SubSeq(category_scores, 1, Len(category_scores) - 1)),
         category_scores[Len(category_scores)])

IsStrengthAbove70(cat) == cat.percentage > 70 * 60

\* cat["percentage"] >= 70
IsStrength(cat) == cat.percentage >= 70 * 60

\* cat["percentage"] < 50
IsWeakness(cat) == cat.percentage < 50 * 60

RECURSIVE Reversed(_)
Reversed(s) == IF s = << >> THEN << >> ELSE Append(Reversed(Tail(s)), Head(s))

weaknesses_worst_first(category_scores) ==
  Prefix(Reversed(SelectSeq(category_scores, IsWeakness)), 3)

\* weaknesses[:3] of the entries below 50 of the sorted list
weaknesses_of(category_scores) == Prefix(SelectSeq(category_scores, IsWeakness), 3)

\* strengths[:3] of the entries from 70 of the sorted list
strengths_of(category_scores) == Prefix(SelectSeq(category_scores, IsStrength), 3)

top_recommendations_first_10(recommendations) == Prefix(recommendations, 10)

\* analysis_result["recommendations"][:5]
top_recommendations(recommendations) == Prefix(recommendations, 5)

\* Whether the try body raises: a subscript with a missing key.
summary_raises(ar) ==
  \/ KeyError(ar, "total_score")
  \/ KeyError(ar, "categories")
  \/ \E i \in 1..Len(ar["categories"]) : KeyError(summary_max_scores, ar["categories"][i][1])
  \/ KeyError(ar, "recommendations")

error_summary_with_level_poor ==
  [overall_score |-> 0,
   score_level |-> "poor",
   score_message |-> "msg_error",
   strengths |-> << >>,
   weaknesses |-> << >>,
   top_recommendations |-> <<"rec_summary_failed">>]

\* The dict returned from the except branch.
error_summary ==
  [overall_score |-> 0,
   score_level |-> "error",
   score_message |-> "msg_error",
   strengths |-> << >>,
   weaknesses |-> << >>,
   top_recommendations |-> <<"rec_summary_failed">>]

get_analysis_summary(ar) ==
  IF summary_raises(ar) THEN error_summary
  ELSE LET total == ar["total_score"]
           items == ar["categories"]
           category_scores ==
             SortByPercentageDesc([i \in 1..Len(items) |->
                                     category_score(items[i][1], items[i][2])])
       IN [overall_score |-> total,
           score_level |-> score_level(total),
           score_message |-> score_message(total),
           strengths |-> strengths_of(category_scores),
           weaknesses |-> weaknesses_of(category_scores),
           top_recommendations |-> top_recommendations(ar["recommendations"])]

(***************************************************************************)
(* The inputs: the feature keys the engine reads, as <<side, namespace,    *)
(* key, category of the evaluator that reads it>>, with the values each    *)
(* may hold.  The values sit on both sides of every threshold the rules    *)
(* compare against.                                                        *)
(***************************************************************************)
Features ==
  <<<<"html", "heading_analysis", "has_h1", "information_architecture">>,
   <<"html", "heading_analysis", "multiple_h1", "information_architecture">>,
   <<"html", "heading_analysis", "hierarchy_issues", "information_architecture">>,
   <<"html", "navigation_analysis", "has_breadcrumbs", "information_architecture">>,
   <<"html", "navigation_analysis", "duplicate_link_texts", "information_architecture">>,
   <<"html", "form_analysis", "form_count", "form_ux">>,
   <<"html", "form_analysis", "unlabeled_count", "form_ux">>,
   <<"html", "form_analysis", "has_error_handling", "form_ux">>,
   <<"html", "form_analysis", "required_fields", "form_ux">>,
   <<"html", "form_analysis", "input_count", "form_ux">>,
   <<"html", "accessibility_analysis", "alt_text_coverage", "accessibility">>,
   <<"html", "accessibility_analysis", "aria_elements_count", "accessibility">>,
   <<"html", "accessibility_analysis", "landmark_roles_count", "accessibility">>,
   <<"html", "accessibility_analysis", "total_images", "performance">>,
   <<"html", "meta_analysis", "title_length", "readability">>,
   <<"html", "meta_analysis", "description_length", "readability">>,
   <<"html", "meta_analysis", "structured_data_count", "performance">>,
   <<"html", "meta_analysis", "has_og_image", "performance">>,
   <<"html", "content_analysis", "avg_paragraph_length", "readability">>,
   <<"image", "above_fold_analysis", "has_cta_above_fold", "cta_visibility">>,
   <<"image", "ocr_analysis", "button_texts", "cta_visibility">>,
   <<"image", "contrast_analysis", "has_good_contrast", "cta_visibility">>,
   <<"image", "contrast_analysis", "is_low_contrast", "accessibility">>,
   <<"image", "visual_density", "is_cluttered", "readability">>,
   <<"image", "visual_density", "has_sufficient_whitespace", "readability">>,
   <<"image", "element_detection", "button_candidates", "cta_visibility">>,
   <<"image", "element_detection", "input_candidates", "form_ux">>>>

FeatureKeys == {Features[i] : i \in 1..Len(Features)}

FeatureValues(f) ==
  CASE f[3] \in {"has_h1", "multiple_h1", "has_breadcrumbs", "has_error_handling",
                 "has_og_image", "has_cta_above_fold", "has_good_contrast",
                 "is_low_contrast", "is_cluttered", "has_sufficient_whitespace"}
         -> BOOLEAN
    [] f[3] = "hierarchy_issues" -> {<< >>, <<"level_jump">>}
    [] f[3] = "button_texts" -> {<< >>, <<"buy">>}
    [] f[3] = "duplicate_link_texts" -> {0, 5, 6}
    [] f[3] \in {"form_count", "unlabeled_count", "required_fields",
                 "aria_elements_count", "landmark_roles_count",
                 "structured_data_count"} -> {0, 1}
    [] f[3] = "input_count" -> {0, 1, 2, 3}
    [] f[3] = "alt_text_coverage" -> {50, 79, 80, 100}
    [] f[3] = "total_images" -> {0, 10, 11}
    [] f[3] = "title_length" -> {0, 60, 61}
    [] f[3] = "description_length" -> {0, 120}
    [] f[3] = "avg_paragraph_length" -> {0, 200, 201}
    [] f[3] \in {"button_candidates", "input_candidates"} -> {0, 1, 2}

\* The feature keys each category's evaluator reads.
ReadSet(category) == {f \in FeatureKeys : f[4] = category}

CategoryOf(f) == f[4]

\* A value on which no rule reading the key fires / on which they fire.
PassValue(f) ==
  CASE f[3] \in {"has_h1", "has_breadcrumbs", "has_error_handling", "has_og_image",
                 "has_cta_above_fold", "has_good_contrast",
                 "has_sufficient_whitespace"} -> TRUE
    [] f[3] \in {"multiple_h1", "is_low_contrast", "is_cluttered"} -> FALSE
    [] f[3] = "hierarchy_issues" -> << >>
    [] f[3] = "button_texts" -> <<"buy">>
    [] f[3] \in {"duplicate_link_texts", "unlabeled_count", "total_images",
                 "avg_paragraph_length"} -> 0
    [] f[3] \in {"form_count", "required_fields", "aria_elements_count",
                 "landmark_roles_count", "structured_data_count"} -> 1
    [] f[3] = "input_count" -> 2
    [] f[3] = "alt_text_coverage" -> 100
    [] f[3] = "title_length" -> 60
    [] f[3] = "description_length" -> 120
    [] f[3] = "button_candidates" -> 2
    [] f[3] = "input_candidates" -> 1

FailValue(f) ==
  CASE f[3] \in {"has_h1", "has_breadcrumbs", "has_error_handling", "has_og_image",
                 "has_cta_above_fold", "has_good_contrast",
                 "has_sufficient_whitespace"} -> FALSE
    [] f[3] \in {"multiple_h1", "is_low_contrast", "is_cluttered"} -> TRUE
    [] f[3] = "hierarchy_issues" -> <<"level_jump">>
    [] f[3] = "button_texts" -> << >>
    [] f[3] = "duplicate_link_texts" -> 6
    [] f[3] \in {"form_count", "unlabeled_count"} -> 1
    [] f[3] \in {"required_fields", "aria_elements_count", "landmark_roles_count",
                 "structured_data_count", "description_length",
                 "button_candidates", "input_candidates"} -> 0
    [] f[3] = "input_count" -> 3
    [] f[3] = "alt_text_coverage" -> 50
    [] f[3] = "total_images" -> 11
    [] f[3] = "title_length" -> 0
    [] f[3] = "avg_paragraph_length" -> 201

\* A key of an input is absent, << >>, or holds a value v, <<v>>.
Options(f) == {<< >>} \cup {<<v>> : v \in FeatureValues(f)}

Profiles == {"absent", "pass", "fail"}

ProfileOption(f, p) ==
  CASE p = "absent" -> << >>
    [] p = "pass" -> <<PassValue(f)>>
    [] p = "fail" -> <<FailValue(f)>>

\* An input gives every feature, in the order of Features, an option.
\* InputsFrom(i, b, c): the ways to give the features from the i-th on an
\* option, those category c reads every option and the others the option of
\* profile b.
RECURSIVE InputsFrom(_, _, _)
InputsFrom(i, b, c) ==
  IF i > Len(Features) THEN {<< >>}
  ELSE {<<o>> \o rest :
          o \in (IF CategoryOf(Features[i]) = c
                 THEN Options(Features[i])
                 ELSE {ProfileOption(Features[i], b)}),
          rest \in InputsFrom(i + 1, b, c)}

\* Inputs that follow one profile except in the keys one category reads, which
\* take every combination of options.
FocusedInputs == UNION {InputsFrom(1, b, c) : b \in Profiles, c \in CategorySet}

\* Inputs whose categories each follow one profile, at most MaxMixed of them
\* another profile than the rest.
MixedInputs ==
  {[i \in 1..Len(Features) |->
      ProfileOption(Features[i],
                    IF CategoryOf(Features[i]) \in DOMAIN q
                    THEN q[CategoryOf(Features[i])] ELSE b)] :
     b \in Profiles,
     q \in UNION {[D -> Profiles] :
                    D \in {E \in SUBSET CategorySet : Cardinality(E) <= MaxMixed}}}

Inputs == MixedInputs \cup FocusedInputs

\* The dictionary of one side ("html" or "image") that an input describes: a
\* sub-dictionary per namespace with the present keys; a namespace without a
\* present key is an empty sub-dictionary (keep_empty) or is absent.
BuildDict(side, val, keep_empty) ==
  LET keysOf(ns) == {i \in 1..Len(Features) :
                       Features[i][1] = side /\ Features[i][2] = ns /\ val[i] # << >>}
      all == {f[2] : f \in {g \in FeatureKeys : g[1] = side}}
  IN [ns \in {n \in all : keep_empty \/ keysOf(n) # {}} |->
        LET present == keysOf(ns)
        IN [k \in {Features[i][3] : i \in present} |->
              val[CHOOSE i \in present : Features[i][3] = k][1]]]

(***************************************************************************)
(* The state machine: a request arrives with the feature dictionaries the  *)
(* collaborators produced, analyze is called on the shared analyzer (and   *)
(* may be called again on the same dictionaries), the report is handed     *)
(* back and the next request arrives.  The analyzer lives across requests. *)
(***************************************************************************)
NoResult == [total_score |-> -1]

GetRaisesWhenMissing(d, k) == k \notin DOMAIN d

\* d.get(k, default) returns the default when k is missing and raises nothing.
GetRaises(d, k) == FALSE

\* Whether the body of analyze raises: the evaluators subscript the table of
\* maxima by their category and read every feature through .get, the
\* namespace first and then the key in it.
Raises(ms, html, image) ==
  \/ \E c \in CategorySet : KeyError(ms, c)
  \/ \E f \in FeatureKeys :
       LET d == IF f[1] = "html" THEN html ELSE image
       IN \/ GetRaises(d, f[2])
          \/ GetRaises(Get(d, f[2], EmptyDict), f[3])

Callers == 1..MaxCalls

\* A caller that is not inside analyze.
IdleCall == [state |-> "idle", html |-> EmptyDict, image |-> EmptyDict,
             results |-> << >>, report |-> NoResult]

\* The analyze_website requests that may be in progress together.
Requests == {"A", "B"}

\* A request that is not inside analyze_website.
IdleRequest ==
  [at |-> "idle", url |-> << >>, browser |-> "not_started", raised |-> FALSE,
   screenshot_data |-> EmptyDict,
   failing |-> {}]

Init ==
  /\ max_scores = InitMaxScores
  /\ html_analysis = EmptyDict
  /\ image_analysis = EmptyDict
  /\ pc = "idle"
  /\ result = NoResult
  /\ analysis_result = EmptyDict
  /\ summary = EmptyDict
  /\ requests = [r \in Requests |-> IdleRequest]
  /\ running = "none"
  /\ calls = [c \in Callers |-> IdleCall]

Receive ==
  /\ pc = "idle"
  /\ \E val \in Inputs : \E keep_empty \in BOOLEAN :
       /\ html_analysis' = BuildDict("html", val, keep_empty)
       /\ image_analysis' = BuildDict("image", val, keep_empty)
  /\ pc' = "received"
  /\ UNCHANGED <<max_scores, result, summary_vars, web_vars, conc_vars>>

\* An analyze that keeps its running score in the shared table: the table
\* entry of accessibility is left at the clamped score.
AnalyzeWritingTable ==
  /\ pc \in {"received", "done"}
  /\ result' = analyze(max_scores, html_analysis, image_analysis)
  /\ max_scores' = [max_scores EXCEPT !.accessibility = result'.scores.accessibility]
  /\ pc' = "done"
  /\ UNCHANGED <<html_analysis, image_analysis, summary_vars, web_vars, conc_vars>>

\* HeuristicAnalyzer.analyze on the request's dictionaries; it may be called
\* again on the same dictionaries before the report is handed back.
\* An exception in the body is logged and re-raised: the call ends without a
\* report.
Analyze ==
  /\ pc \in {"received", "done"}
  /\ IF Raises(max_scores, html_analysis, image_analysis)
     THEN /\ result' = NoResult
          /\ pc' = "failed"
     ELSE /\ result' = analyze(max_scores, html_analysis, image_analysis)
          /\ pc' = "done"
  /\ UNCHANGED <<max_scores, html_analysis, image_analysis, summary_vars, web_vars,
                 conc_vars>>

\* The report has been handed back; the dictionaries and the report are dropped.
Respond ==
  /\ pc \in {"done", "failed"}
  /\ html_analysis' = EmptyDict
  /\ image_analysis' = EmptyDict
  /\ result' = NoResult
  /\ pc' = "idle"
  /\ UNCHANGED <<max_scores, summary_vars, web_vars, conc_vars>>

Next == Receive \/ Analyze \/ Respond

Spec == Init /\ [][Next]_vars

(***************************************************************************)
(* get_analysis_summary as an operation of its own: it is given a result   *)
(* dictionary, of analyze_website or any other, and returns the summary.   *)
(* The scores offered for each category lie on both sides of 50 and of 70  *)
(* percent of its maximum.                                                 *)
(***************************************************************************)
ScoreValues(category) ==
  CASE category = "information_architecture" -> {6, 14, 15, 20, 21}
    [] category = "cta_visibility" -> {2, 9, 10, 13, 14}
    [] category = "readability" -> {4, 9, 10, 13, 14}
    [] category = "form_ux" -> {0, 7, 8, 10, 11}
    [] category = "accessibility" -> {1, 4, 5, 6, 7}
    [] category = "performance" -> {0, 2, 3, 4, 5}

\* Scores that tie in percentage across categories: half and seven tenths of
\* the maximum where those are whole, else the maximum.
TieValues(category) ==
  CASE category = "information_architecture" -> {15, 21}
    [] category = "cta_visibility" -> {10, 14}
    [] category = "readability" -> {10, 14}
    [] category = "form_ux" -> {15}
    [] category = "accessibility" -> {5, 7}
    [] category = "performance" -> {5}

\* The item sequences giving the categories from the i-th on a score of V.
RECURSIVE ItemsFrom(_, _)
ItemsFrom(i, V) ==
  IF i > Len(Categories) THEN {<< >>}
  ELSE {<<<<Categories[i], s>>>> \o rest : s \in V[Categories[i]], rest \in ItemsFrom(i + 1, V)}

RECURSIVE SumItems(_)
SumItems(items) == IF items = << >> THEN 0 ELSE Head(items)[2] + SumItems(Tail(items))

RecList ==
  <<"rec_ia_001", "rec_cta_001", "rec_form_001", "rec_a11y_001", "rec_ia_002",
    "rec_cta_002", "rec_read_001", "rec_ia_004", "rec_perf_001", "rec_perf_003">>

SomeItems ==
  <<<<"information_architecture", 25>>, <<"cta_visibility", 12>>, <<"readability", 16>>,
    <<"form_ux", 15>>, <<"accessibility", 4>>, <<"performance", 2>>>>

AnalysisResultOf(total, items, recommendations) ==
  [k \in {"total_score", "categories", "recommendations"} |->
     CASE k = "total_score" -> total
       [] k = "categories" -> items
       [] k = "recommendations" -> recommendations]

Restricted(ar, keys) == [k \in keys |-> ar[k]]

\* Every total of 0..100.
TierInputs == {AnalysisResultOf(t, SomeItems, Prefix(RecList, 3)) : t \in 0..100}

\* Every combination of category scores, in the order analyze_website writes.
CategoryInputs ==
  {AnalysisResultOf(SumItems(items), items, Prefix(RecList, 4)) :
     items \in ItemsFrom(1, [c \in CategorySet |-> ScoreValues(c)])}

\* The categories in the opposite order, with ties in percentage, and fewer
\* than six categories.
OrderInputs ==
  {AnalysisResultOf(SumItems(items), Reversed(items), Prefix(RecList, 4)) :
     items \in ItemsFrom(1, [c \in CategorySet |-> TieValues(c)])}
  \cup {AnalysisResultOf(SumItems(items), items, Prefix(RecList, 4)) :
          items \in UNION {ItemsFrom(i, [c \in CategorySet |-> TieValues(c)]) : i \in 2..(Len(Categories) + 1)}}

\* Recommendation lists of every length analyze returns, and none.
RecommendationInputs ==
  {AnalysisResultOf(SumItems(SomeItems), SomeItems, Prefix(RecList, n)) : n \in 0..10}

\* Results that lack keys or name a category that is not in the table.
MalformedInputs ==
  {Restricted(AnalysisResultOf(74, SomeItems, RecList), keys) :
     keys \in (SUBSET {"total_score", "categories", "recommendations"})
               \ {{"total_score", "categories", "recommendations"}}}
  \cup {AnalysisResultOf(t, Append(SomeItems, <<"seo", 3>>), Prefix(RecList, n)) :
          t \in {0, 74}, n \in {0, 7}}
  \cup {AnalysisResultOf(74, <<<<"seo", 3>>>> \o SomeItems, RecList)}

SummaryInputs ==
  TierInputs \cup CategoryInputs \cup OrderInputs \cup RecommendationInputs
    \cup MalformedInputs

LoadResult ==
  /\ pc = "idle"
  /\ analysis_result' \in SummaryInputs
  /\ pc' = "loaded"
  /\ UNCHANGED <<max_scores, html_analysis, image_analysis, result, summary,
                 web_vars, conc_vars>>

\* get_analysis_summary builds its lists anew; the given dictionary is only
\* read.
Summarize ==
  /\ pc = "loaded"
  /\ summary' = get_analysis_summary(analysis_result)
  /\ pc' = "summarized"
  /\ UNCHANGED <<max_scores, html_analysis, image_analysis, result, analysis_result,
                 web_vars, conc_vars>>

Deliver ==
  /\ pc = "summarized"
  /\ analysis_result' = EmptyDict
  /\ summary' = EmptyDict
  /\ pc' = "idle"
  /\ UNCHANGED <<max_scores, html_analysis, image_analysis, result, web_vars, conc_vars>>

SummaryNext == LoadResult \/ Summarize \/ Deliver

SummarySpec == Init /\ [][SummaryNext]_vars

(***************************************************************************)
(* AnalysisService.analyze_website on the analysis_service singleton.      *)
(* A request runs on the event loop from one await to the next; while it   *)
(* is suspended other requests run.  requests[r].at is the await request r *)
(* is suspended at.  After the last await of the capture the request runs  *)
(* to its end without suspension: running names the request in that        *)
(* stretch, and html_analysis, image_analysis, result and pc hold its      *)
(* locals and its position.  A capture with a browser ends in the          *)
(* exception of its first call on the page, so the page that is analysed   *)
(* is the mock page.  A page is held by what HtmlAnalyzer counts in its    *)
(* HTML and a screenshot by what ImageAnalyzer measures on it; both        *)
(* analysers are held to the keys the engine reads.                        *)
(***************************************************************************)
ImageSubAnalyses ==
  {"ocr_analysis", "visual_density", "element_detection", "above_fold_analysis",
   "contrast_analysis"}

\* The sub-analyses that raise internally on one screenshot: none, one, or all.
FailingSets == {{}} \cup {{s} : s \in ImageSubAnalyses} \cup {ImageSubAnalyses}

\* The url argument, a validated HttpUrl without whitespace: runs of plain
\* characters and of character references "&amp;", as <<kind, count>>.
\* https://example.com (19 characters), a URL of 47 plain characters, and
\* https://example.com/search?q=1&amp;page=2222222 (47 characters).
Urls ==
  {<<<<"plain", 19>>>>,
   <<<<"plain", 47>>>>,
   <<<<"plain", 30>>, <<"amp_ref", 1>>, <<"plain", 12>>>>}

\* The characters of the text as it is written into the HTML.
RECURSIVE written_length(_)
written_length(text) ==
  IF text = << >> THEN 0
  ELSE (IF text[1][1] = "amp_ref" THEN 5 * text[1][2] ELSE text[1][2])
         + written_length(Tail(text))

\* The characters of the text of an element as the parser gives it: every
\* character reference is decoded to its one character.
RECURSIVE parsed_length(_)
parsed_length(text) ==
  IF text = << >> THEN 0
  ELSE text[1][2] + parsed_length(Tail(text))

\* title_tag.get_text().strip() on <title>Mock Page for {url}</title>: the 14
\* characters of "Mock Page for " and the URL as parsed; the text neither
\* starts nor ends in whitespace, so strip() takes nothing.
mock_title_length(url) == parsed_length(<<<<"plain", 14>>>> \o url)

\* What HtmlAnalyzer counts in the HTML of _create_mock_response: a title of
\* "Mock Page for " and the URL, a description of 46 characters, one h1, one
\* paragraph of 66 characters, one form with a labelled e-mail input and a
\* submit input; no element has a class attribute.  heading_counts[l] is the
\* number of h-tags of level l.
mock_page(url) ==
  [title_length |-> mock_title_length(url), description_length |-> 46,
   og_image |-> FALSE, json_ld_scripts |-> 0,
   heading_counts |-> <<1, 0, 0, 0, 0, 0>>,
   breadcrumbs |-> 0, link_texts |-> 0, distinct_link_texts |-> 0,
   forms |-> 1, inputs |-> 2, unlabeled_inputs |-> 0,
   classed_elements |-> 0, error_elements |-> 0,
   required |-> 0, images |-> 0, images_without_alt |-> 0,
   landmarks |-> 0, paragraphs |-> 1, paragraph_chars |-> 66]

\* heading_order: the levels of the h-tags, all h1 first, then all h2, ...
RECURSIVE heading_order(_, _)
heading_order(heading_counts, level) ==
  IF level > Len(heading_counts) THEN << >>
  ELSE [i \in 1..heading_counts[level] |-> level] \o heading_order(heading_counts, level + 1)

\* The jumps of _check_heading_hierarchy from the i-th heading on.
RECURSIVE hierarchy_jumps(_, _)
hierarchy_jumps(order, i) ==
  IF i > Len(order) THEN << >>
  ELSE (IF order[i] > order[i - 1] + 1
        THEN <<<<"issue_jump", order[i - 1], order[i]>>>>
        ELSE << >>) \o hierarchy_jumps(order, i + 1)

\* HtmlAnalyzer._check_heading_hierarchy
check_heading_hierarchy(order) ==
  IF order = << >> THEN << >>
  ELSE (IF order[1] # 1 THEN <<<<"issue_not_from_h1", 0, 0>>>> ELSE << >>)
         \o hierarchy_jumps(order, 2)

\* _analyze_accessibility hands find_all a function as attrs, which
\* BeautifulSoup takes for a filter on the class attribute: the function is
\* called with the class of each element, None where there is none.  With a
\* class it calls keys() on a string and raises.
html_analysis_raises(m) == m.classed_elements > 0

\* HtmlAnalyzer.analyze where it does not raise.  No element has a class, so
\* the ARIA filter matches nothing.  The quotients are whole for the mock page.
html_analysis_of(m) ==
  [meta_analysis |->
     [title_length |-> m.title_length,
      description_length |-> m.description_length,
      has_og_image |-> m.og_image,
      structured_data_count |-> m.json_ld_scripts],
   heading_analysis |->
     [hierarchy_issues |-> check_heading_hierarchy(heading_order(m.heading_counts, 1)),
      has_h1 |-> m.heading_counts[1] > 0,
      multiple_h1 |-> m.heading_counts[1] > 1],
   navigation_analysis |->
     [has_breadcrumbs |-> m.breadcrumbs > 0,
      duplicate_link_texts |-> m.link_texts - m.distinct_link_texts],
   form_analysis |->
     [form_count |-> m.forms,
      input_count |-> m.inputs,
      unlabeled_count |-> m.unlabeled_inputs,
      has_error_handling |-> m.error_elements > 0,
      required_fields |-> m.required],
   accessibility_analysis |->
     [total_images |-> m.images,
      alt_text_coverage |-> ((m.images - m.images_without_alt) * 100) \div Max(m.images, 1),
      aria_elements_count |-> 0,
      landmark_roles_count |-> m.landmarks],
   content_analysis |->
     [avg_paragraph_length |-> m.paragraph_chars \div Max(m.paragraphs, 1)]]

ScreenNames == {"clear", "flat", "dull"}

\* What ImageAnalyzer measures on a screenshot: the texts OCR takes for
\* buttons, whether it finds a CTA word above the fold, the complexity score,
\* the share of white pixels in hundredths, the counts of button and input
\* shaped rectangles, the RMS contrast and the dynamic range.  An analyzer
\* without OCR reads every screenshot as one without text.
ScreenMeasures(name) ==
  CASE name = "clear" ->
         [button_texts |-> <<"buy">>, cta_found |-> TRUE, complexity_score |-> 20,
          white_space_ratio |-> 40, button_candidates |-> 3, input_candidates |-> 2,
          rms_contrast |-> 60, dynamic_range |-> 200]
    [] name = "flat" ->
         [button_texts |-> <<"buy">>, cta_found |-> FALSE, complexity_score |-> 20,
          white_space_ratio |-> 40, button_candidates |-> 1, input_candidates |-> 0,
          rms_contrast |-> 40, dynamic_range |-> 80]
    [] name = "dull" ->
         [button_texts |-> << >>, cta_found |-> FALSE, complexity_score |-> 60,
          white_space_ratio |-> 10, button_candidates |-> 0, input_candidates |-> 0,
          rms_contrast |-> 20, dynamic_range |-> 50]

\* What each image sub-analysis returns from its try body.
image_measured(sub_analysis, s) ==
  CASE sub_analysis = "ocr_analysis" -> [button_texts |-> s.button_texts]
    [] sub_analysis = "visual_density" ->
         [is_cluttered |-> s.complexity_score > 50,
          has_sufficient_whitespace |-> s.white_space_ratio > 30]
    [] sub_analysis = "element_detection" ->
         [button_candidates |-> s.button_candidates,
          input_candidates |-> s.input_candidates]
    [] sub_analysis = "above_fold_analysis" -> [has_cta_above_fold |-> s.cta_found]
    [] sub_analysis = "contrast_analysis" ->
         [has_good_contrast |-> s.rms_contrast > 50 /\ s.dynamic_range > 100,
          is_low_contrast |-> s.rms_contrast < 30]

\* The dict an image sub-analysis returns from its except branch.
image_fallback(sub_analysis) ==
  CASE sub_analysis = "ocr_analysis" -> [button_texts |-> << >>]
    [] sub_analysis = "visual_density" ->
         [is_cluttered |-> FALSE, has_sufficient_whitespace |-> TRUE]
    [] sub_analysis = "element_detection" ->
         [button_candidates |-> 0, input_candidates |-> 0]
    [] sub_analysis = "above_fold_analysis" -> [has_cta_above_fold |-> FALSE]
    [] sub_analysis = "contrast_analysis" ->
         [has_good_contrast |-> FALSE, is_low_contrast |-> TRUE]

\* ImageAnalyzer.analyze_screenshot on a readable image: every sub-analysis
\* gives what it measured or, when it raised, its fallback.
analyze_screenshot(s, failing) ==
  [ns \in ImageSubAnalyses |->
     IF ns \in failing THEN image_fallback(ns) ELSE image_measured(ns, s)]

\* ScreenshotService._create_mock_response
mock_response == [screenshot_path |-> "mock.png", html_content |-> "mock"]

\* A request that is over, with a result or with an exception: its locals are
\* dropped.
Ended(q, outcome) ==
  [IdleRequest EXCEPT !.at = outcome, !.browser = q.browser,
                      !.raised = (outcome = "failed")]

\* analyze_website is entered: the request runs up to its first await,
\* async_playwright().start() in __aenter__.
Request(r) ==
  /\ running = "none"
  /\ requests[r].at = "idle"
  /\ \E url \in Urls :
       requests' = [requests EXCEPT ![r] = [IdleRequest EXCEPT !.at = "start",
                                                              !.url = url]]
  /\ UNCHANGED <<max_scores, html_analysis, image_analysis, pc, result, summary_vars,
                 running, conc_vars>>

\* The except branch of __aenter__: no browser, so capture_page returns the
\* mock response and __aexit__ closes nothing, all without an await; the
\* request goes on to the analyses.
WithoutBrowser(r) ==
  /\ requests' = [requests EXCEPT ![r].browser = "unavailable",
                                  ![r].screenshot_data = mock_response,
                                  ![r].at = "analysis"]
  /\ running' = r
  /\ pc' = "captured"

\* await async_playwright().start() is over.
StartPlaywright(r) ==
  /\ running = "none"
  /\ requests[r].at = "start"
  /\ \E started \in BOOLEAN :
       IF started
       THEN /\ requests' = [requests EXCEPT ![r].at = "launch"]
            /\ UNCHANGED <<running, pc>>
       ELSE WithoutBrowser(r)
  /\ UNCHANGED <<max_scores, html_analysis, image_analysis, result, summary_vars,
                 conc_vars>>

\* await self.playwright.chromium.launch(...) is over; with a browser
\* capture_page runs up to await self._browser.new_page().
LaunchBrowser(r) ==
  /\ running = "none"
  /\ requests[r].at = "launch"
  /\ \E launched \in BOOLEAN :
       IF launched
       THEN /\ requests' = [requests EXCEPT ![r].browser = "available",
                                            ![r].at = "new_page"]
            /\ UNCHANGED <<running, pc>>
       ELSE WithoutBrowser(r)
  /\ UNCHANGED <<max_scores, html_analysis, image_analysis, result, summary_vars,
                 conc_vars>>

\* await self._browser.new_page() is over.  It stands before the try: when it
\* raises, only __aexit__ is left to run.  With a page the try is entered and
\* page.set_viewport_size(width=..., height=...) raises where it is called,
\* the method taking one viewport_size argument: the except branch raises
\* again and the finally goes to await page.close().
NewPage(r) ==
  /\ running = "none"
  /\ requests[r].at = "new_page"
  /\ \E opened \in BOOLEAN :
       requests' = [requests EXCEPT ![r].raised = TRUE,
                                    ![r].at = IF opened THEN "page_close"
                                              ELSE "browser_close"]
  /\ UNCHANGED <<max_scores, html_analysis, image_analysis, pc, result, summary_vars,
                 running, conc_vars>>

\* await page.close() in the finally is over; whether it raises or not, an
\* exception leaves capture_page and __aexit__ runs up to
\* await self._browser.close().
ClosePage(r) ==
  /\ running = "none"
  /\ requests[r].at = "page_close"
  /\ requests' = [requests EXCEPT ![r].at = "browser_close"]
  /\ UNCHANGED <<max_scores, html_analysis, image_analysis, pc, result, summary_vars,
                 running, conc_vars>>

\* await self._browser.close() in __aexit__ is over; when it raises, the
\* request ends with that exception.
CloseBrowser(r) ==
  /\ running = "none"
  /\ requests[r].at = "browser_close"
  /\ \E closed \in BOOLEAN :
       requests' = IF closed
                   THEN [requests EXCEPT ![r].at = "playwright_stop"]
                   ELSE [requests EXCEPT ![r] = Ended(@, "failed")]
  /\ UNCHANGED <<max_scores, html_analysis, image_analysis, pc, result, summary_vars,
                 running, conc_vars>>

\* await self.playwright.stop() in __aexit__ is over: the request ends with
\* the exception of the capture, or with the one stop() raised.
StopPlaywright(r) ==
  /\ running = "none"
  /\ requests[r].at = "playwright_stop"
  /\ requests' = [requests EXCEPT ![r] = Ended(@, "failed")]
  /\ UNCHANGED <<max_scores, html_analysis, image_analysis, pc, result, summary_vars,
                 running, conc_vars>>

\* self.html_analyzer.analyze(screenshot_data["html_content"], url): the
\* analysis dictionary, or the exception its except branch raises again.
AnalyzeHtml ==
  /\ pc = "captured"
  /\ \E parsed \in BOOLEAN :
       LET m == mock_page(requests[running].url)
       IN IF parsed /\ ~html_analysis_raises(m)
          THEN /\ html_analysis' = html_analysis_of(m)
               /\ pc' = "html_done"
          ELSE /\ html_analysis' = EmptyDict
               /\ pc' = "failed"
  /\ UNCHANGED <<max_scores, image_analysis, result, summary_vars, web_vars, conc_vars>>

\* self.image_analyzer.analyze_screenshot(path): an image that cannot be read
\* raises; else the dictionaries are ready for the engine.
AnalyzeScreenshot ==
  /\ pc = "html_done"
  /\ \E readable \in BOOLEAN : \E screen \in ScreenNames : \E failing \in FailingSets :
       IF readable
       THEN /\ image_analysis' = analyze_screenshot(ScreenMeasures(screen), failing)
            /\ requests' = [requests EXCEPT ![running].failing = failing]
            /\ pc' = "received"
            /\ UNCHANGED html_analysis
       ELSE /\ image_analysis' = EmptyDict
            /\ html_analysis' = EmptyDict
            /\ pc' = "failed"
            /\ UNCHANGED requests
  /\ UNCHANGED <<max_scores, result, summary_vars, running, conc_vars>>

\* The result dictionary analyze_website returns.
BuildResult ==
  /\ pc = "done"
  /\ analysis_result' = AnalysisResultOf(result.total_score, category_items(result),
                                         result.recommendations)
  /\ pc' = "succeeded"
  /\ UNCHANGED <<max_scores, html_analysis, image_analysis, result, summary, web_vars,
                 conc_vars>>

\* analyze_website returns its result, or its except branch raises again; the
\* event loop is free for the other requests.
Finish ==
  /\ pc \in {"succeeded", "failed"}
  /\ requests' = [requests EXCEPT ![running] = Ended(@, pc)]
  /\ html_analysis' = EmptyDict
  /\ image_analysis' = EmptyDict
  /\ result' = NoResult
  /\ analysis_result' = EmptyDict
  /\ running' = "none"
  /\ pc' = "idle"
  /\ UNCHANGED <<max_scores, summary, conc_vars>>

\* The caller has the result, or the HTTP 500 made of the exception.
Answer(r) ==
  /\ running = "none"
  /\ requests[r].at \in {"succeeded", "failed"}
  /\ requests' = [requests EXCEPT ![r] = IdleRequest]
  /\ UNCHANGED <<max_scores, html_analysis, image_analysis, pc, result, summary_vars,
                 running, conc_vars>>

WebNext ==
  \/ \E r \in Requests :
       \/ Request(r)
       \/ StartPlaywright(r)
       \/ LaunchBrowser(r)
       \/ NewPage(r)
       \/ ClosePage(r)
       \/ CloseBrowser(r)
       \/ StopPlaywright(r)
       \/ Answer(r)
  \/ AnalyzeHtml
  \/ AnalyzeScreenshot
  \/ Analyze
  \/ BuildResult
  \/ Finish

WebSpec == Init /\ [][WebNext]_vars

(***************************************************************************)
(* Concurrent analyze calls on the one HeuristicAnalyzer of the            *)
(* analysis_service singleton.  Each call holds its arguments and the      *)
(* category results it has computed so far in its own frame; the calls may *)
(* interleave between any two evaluators.                                  *)
(***************************************************************************)
\* The dictionaries of a page on which every rule passes, one on which the
\* rules fire, and one with no key.
ConcurrentInputs == UNION {InputsFrom(1, b, "none") : b \in Profiles}

Enter(c) ==
  /\ calls[c].state = "idle"
  /\ \E val \in ConcurrentInputs :
       calls' = [calls EXCEPT ![c] = [state |-> "running",
                                      html |-> BuildDict("html", val, TRUE),
                                      image |-> BuildDict("image", val, TRUE),
                                      results |-> << >>,
                                      report |-> NoResult]]
  /\ UNCHANGED <<max_scores, html_analysis, image_analysis, pc, result, summary_vars,
                 web_vars>>

\* An evaluator that leaves its clamped score in the shared table.
StepWritingTable(c) ==
  /\ calls[c].state = "running"
  /\ Len(calls[c].results) < Len(Categories)
  /\ LET category == Categories[Len(calls[c].results) + 1]
         r == evaluate(category, max_scores, calls[c].html, calls[c].image)
     IN /\ calls' = [calls EXCEPT ![c].results = Append(@, r)]
        /\ max_scores' = [max_scores EXCEPT ![category] = r.score]
  /\ UNCHANGED <<html_analysis, image_analysis, pc, result, summary_vars, web_vars>>

\* The next evaluator of call c: it reads the table of maxima and the call's
\* dictionaries and builds its rule list and score in locals.
Step(c) ==
  /\ calls[c].state = "running"
  /\ Len(calls[c].results) < Len(Categories)
  /\ LET category == Categories[Len(calls[c].results) + 1]
         r == evaluate(category, max_scores, calls[c].html, calls[c].image)
     IN calls' = [calls EXCEPT ![c].results = Append(@, r)]
  /\ UNCHANGED <<max_scores, html_analysis, image_analysis, pc, result, summary_vars,
                 web_vars>>

\* The scores are summed, the rules joined and ranked, the report returned.
Return(c) ==
  /\ calls[c].state = "running"
  /\ Len(calls[c].results) = Len(Categories)
  /\ LET r == calls[c].results
     IN calls' = [calls EXCEPT ![c].report = build_report(r[1], r[2], r[3], r[4], r[5], r[6]),
                               ![c].state = "returned"]
  /\ UNCHANGED <<max_scores, html_analysis, image_analysis, pc, result, summary_vars,
                 web_vars>>

\* The caller has taken the report.
Leave(c) ==
  /\ calls[c].state = "returned"
  /\ calls' = [calls EXCEPT ![c] = IdleCall]
  /\ UNCHANGED <<max_scores, html_analysis, image_analysis, pc, result, summary_vars,
                 web_vars>>

ConcurrentNext == \E c \in Callers : Enter(c) \/ Step(c) \/ Return(c) \/ Leave(c)

ConcurrentSpec == Init /\ [][ConcurrentNext]_vars

(***************************************************************************)
(* Properties                                                              *)
(***************************************************************************)
Done == pc = "done"

\* The category maxima as the specification states them.
StatedMax ==
  [information_architecture |-> 30,
   cta_visibility |-> 20,
   readability |-> 20,
   form_ux |-> 15,
   accessibility |-> 10,
   performance |-> 5]

RECURSIVE SumImpacts(_)
SumImpacts(rules) ==
  IF rules = << >> THEN 0 ELSE Head(rules).score_impact + SumImpacts(Tail(rules))

RuleIds(rules) == [i \in 1..Len(rules) |-> rules[i].rule_id]

NoRepeat(s) == \A i, j \in 1..Len(s) : s[i] = s[j] => i = j

\* C1: every report has 0 <= total_score <= 100 and, for each of the six
\* categories, 0 <= score <= the category's maximum (30, 20, 20, 15, 10, 5).
C1_ScoresInRange ==
  Done =>
    /\ 0 <= result.total_score /\ result.total_score <= 100
    /\ \A c \in CategorySet :
         /\ 0 <= result.category_details[c].score
         /\ result.category_details[c].score <= StatedMax[c]
         /\ 0 <= result.scores[c]
         /\ result.scores[c] <= StatedMax[c]

\* The accessibility rules sum to -12 against a maximum of 10: the raw score
\* is negative and the reported score is 0.
C1_Witness ==
  /\ Done
  /\ Len(result.category_details["accessibility"].rules) = 4
  /\ result.category_details["accessibility"].score = 0

\* C2: each category's score is max(0, category maximum + sum of the
\* score_impact of the violations listed for it), and no rule id is listed
\* twice.
C2_ScoreIsClampedSum ==
  Done =>
    \A c \in CategorySet :
      LET d == result.category_details[c]
      IN /\ d.score = Max(0, StatedMax[c] + SumImpacts(d.rules))
         /\ NoRepeat(RuleIds(d.rules))

\* Several rules fired in one category without reaching the clamp, and the
\* clamp is reached in another.
C2_Witness ==
  /\ Done
  /\ Len(result.category_details["information_architecture"].rules) = 5
  /\ result.category_details["information_architecture"].score = 13
  /\ Len(result.category_details["accessibility"].rules) = 4

\* C3: total_score is the plain sum of the six category scores, and the score
\* of every category in the categories mapping is the score of its
\* category_details entry.
C3_TotalIsSum ==
  Done =>
    /\ result.total_score =
         result.category_details["information_architecture"].score
           + result.category_details["cta_visibility"].score
           + result.category_details["readability"].score
           + result.category_details["form_ux"].score
           + result.category_details["accessibility"].score
           + result.category_details["performance"].score
    /\ \A c \in CategorySet :
         categories(result)[c] = result.category_details[c].score

\* A report whose categories lost different amounts, none of them zero.
C3_Witness ==
  /\ Done
  /\ result.total_score = 16
  /\ result.category_details["performance"].score = 1
  /\ result.category_details["readability"].score = 2

\* C4: the report of a call depends on the feature dictionaries alone: it is
\* the report a freshly constructed analyzer returns for them, whatever calls
\* the shared analyzer served before and however often it is called on them.
C4_Deterministic ==
  Done => result = analyze(InitMaxScores, html_analysis, image_analysis)

\* A report with violations and lowered scores, as any call, first or
\* repeated, leaves it.
C4_Witness ==
  /\ Done
  /\ max_scores = InitMaxScores
  /\ result.category_details["accessibility"].score = 6
  /\ Len(result.rules) > 0
  /\ Len(result.recommendations) > 0

\* C5: the category maxima are 30, 20, 20, 15, 10 and 5, they sum to 100, and
\* the scoring engine's table is the summary classifier's table.
C5_MaximaTable ==
  /\ max_scores = StatedMax
  /\ max_scores["information_architecture"] + max_scores["cta_visibility"]
       + max_scores["readability"] + max_scores["form_ux"]
       + max_scores["accessibility"] + max_scores["performance"] = 100
  /\ max_scores = summary_max_scores
  /\ Done => \A c \in CategorySet :
               result.category_details[c].max_score = summary_max_scores[c]

\* A report carrying the maxima of the engine's table.
C5_Witness ==
  /\ Done
  /\ result.category_details["information_architecture"].max_score = 30
  /\ result.category_details["performance"].max_score = 5
  /\ DOMAIN max_scores = CategorySet

(***************************************************************************)
(* The rule tables as the specification states them: id, severity, impact  *)
(* and the condition on the input, a missing key read as the default the   *)
(* input contract documents.                                               *)
(***************************************************************************)
Html(ns, key, default) == Get(Get(html_analysis, ns, EmptyDict), key, default)

Image(ns, key, default) == Get(Get(image_analysis, ns, EmptyDict), key, default)

Stated(rule_id, severity, score_impact, fires) ==
  [rule_id |-> rule_id, severity |-> severity, score_impact |-> score_impact,
   fires |-> fires]

StatedIA ==
  <<Stated("ia_001", "high", -5, Html("heading_analysis", "has_h1", FALSE) = FALSE),
    Stated("ia_002", "medium", -3, Html("heading_analysis", "multiple_h1", FALSE) = TRUE),
    Stated("ia_003", "medium", -4, Html("heading_analysis", "hierarchy_issues", << >>) # << >>),
    Stated("ia_004", "low", -2, Html("navigation_analysis", "has_breadcrumbs", FALSE) = FALSE),
    Stated("ia_005", "medium", -3, Html("navigation_analysis", "duplicate_link_texts", 0) > 5)>>

StatedCTA ==
  <<Stated("cta_001", "high", -8, Image("above_fold_analysis", "has_cta_above_fold", FALSE) = FALSE),
    Stated("cta_002", "medium", -5, Image("ocr_analysis", "button_texts", << >>) = << >>),
    Stated("cta_003", "medium", -4, Image("contrast_analysis", "has_good_contrast", TRUE) = FALSE),
    Stated("cta_004", "low", -3, Image("element_detection", "button_candidates", 0) < 2)>>

StatedReadability ==
  <<Stated("read_001", "high", -5, Html("meta_analysis", "title_length", 0) = 0),
    Stated("read_002", "low", -2, Html("meta_analysis", "title_length", 0) > 60),
    Stated("read_003", "medium", -3, Html("meta_analysis", "description_length", 0) = 0),
    Stated("read_004", "low", -2, Html("content_analysis", "avg_paragraph_length", 0) > 200),
    Stated("read_005", "medium", -4, Image("visual_density", "is_cluttered", FALSE) = TRUE),
    Stated("read_006", "medium", -4,
           Image("visual_density", "has_sufficient_whitespace", TRUE) = FALSE)>>

FormCountPositive == Html("form_analysis", "form_count", 0) > 0

StatedForm ==
  <<Stated("form_001", "high", -6,
           FormCountPositive /\ Html("form_analysis", "unlabeled_count", 0) > 0),
    Stated("form_002", "medium", -4,
           FormCountPositive /\ Html("form_analysis", "has_error_handling", FALSE) = FALSE),
    Stated("form_003", "low", -2,
           /\ FormCountPositive
           /\ Html("form_analysis", "required_fields", 0) = 0
           /\ Html("form_analysis", "input_count", 1) > 2),
    Stated("form_004", "low", -3,
           /\ FormCountPositive
           /\ 2 * Image("element_detection", "input_candidates", 0)
                < Html("form_analysis", "input_count", 1))>>

StatedA11y ==
  <<Stated("a11y_001", "medium", -4, Html("accessibility_analysis", "alt_text_coverage", 100) < 80),
    Stated("a11y_002", "low", -2, Html("accessibility_analysis", "aria_elements_count", 0) = 0),
    Stated("a11y_003", "low", -2, Html("accessibility_analysis", "landmark_roles_count", 0) = 0),
    Stated("a11y_004", "medium", -4, Image("contrast_analysis", "is_low_contrast", FALSE) = TRUE)>>

StatedPerformance ==
  <<Stated("perf_001", "low", -1, Html("meta_analysis", "structured_data_count", 0) = 0),
    Stated("perf_002", "low", -2, Html("accessibility_analysis", "total_images", 0) > 10),
    Stated("perf_003", "low", -1, Html("meta_analysis", "has_og_image", FALSE) = FALSE)>>

\* The rules of a stated table whose condition holds, and the rules of a
\* result, both as <<id, severity, impact>> in order.
StatedFired(table) ==
  LET fired == SelectSeq(table, LAMBDA r : r.fires)
  IN [i \in 1..Len(fired) |->
        <<fired[i].rule_id, fired[i].severity, fired[i].score_impact>>]

Reported(rules) ==
  [i \in 1..Len(rules) |-> <<rules[i].rule_id, rules[i].severity, rules[i].score_impact>>]

NoPredicateTrue ==
  StatedFired(StatedIA \o StatedCTA \o StatedReadability \o StatedForm
                \o StatedA11y \o StatedPerformance) = << >>

\* C6: when form_count is 0 or absent, form_ux scores 15 with no violation,
\* whatever the other form features hold.
C6_NoFormFullScore ==
  (Done /\ Html("form_analysis", "form_count", 0) = 0) =>
    /\ result.category_details["form_ux"].score = 15
    /\ result.category_details["form_ux"].rules = << >>

\* form_count is 0 while every other form feature is one the rules penalize.
C6_Witness ==
  /\ Done
  /\ Html("form_analysis", "form_count", 1) = 0
  /\ Html("form_analysis", "unlabeled_count", 0) = 1
  /\ Html("form_analysis", "has_error_handling", TRUE) = FALSE
  /\ Html("form_analysis", "required_fields", 1) = 0
  /\ Html("form_analysis", "input_count", 1) = 3
  /\ Image("element_detection", "input_candidates", 1) = 0
  /\ result.category_details["form_ux"].score = 15

\* C7: on an input on which no rule's condition holds, total_score is 100, no
\* violation is reported and the recommendations are the three generic
\* entries in pool order.
C7_BestCase ==
  (Done /\ NoPredicateTrue) =>
    /\ result.total_score = 100
    /\ result.rules = << >>
    /\ \A c \in CategorySet : result.category_details[c].rules = << >>
    /\ result.recommendations =
         <<"rec_generic_contrast", "rec_generic_top", "rec_generic_navigation">>

\* A page passing every rule, with a form on it.
C7_Witness ==
  /\ Done
  /\ NoPredicateTrue
  /\ Html("form_analysis", "form_count", 0) > 0
  /\ result.total_score = 100

\* C8: the information architecture result lists exactly the stated rules
\* whose condition holds, in the stated order, with the stated severity and
\* impact (duplicate_link_texts of exactly 5 does not fire ia_005); without H1
\* and breadcrumbs and all else passing the score is 23 and the fired rules
\* are ia_001, ia_004.
C8_InformationArchitectureRules ==
  Done =>
    LET d == result.category_details["information_architecture"]
    IN /\ Reported(d.rules) = StatedFired(StatedIA)
       /\ \A i \in 1..Len(d.rules) :
            d.rules[i].category = "information_architecture" /\ ~d.rules[i].passed
       /\ (/\ Html("heading_analysis", "has_h1", FALSE) = FALSE
           /\ Html("navigation_analysis", "has_breadcrumbs", FALSE) = FALSE
           /\ Html("heading_analysis", "multiple_h1", FALSE) = FALSE
           /\ Html("heading_analysis", "hierarchy_issues", << >>) = << >>
           /\ Html("navigation_analysis", "duplicate_link_texts", 0) <= 5)
          => (d.score = 23 /\ RuleIds(d.rules) = <<"ia_001", "ia_004">>)

\* The scenario, with duplicate_link_texts at the threshold.
C8_Witness ==
  /\ Done
  /\ Html("heading_analysis", "has_h1", TRUE) = FALSE
  /\ Html("navigation_analysis", "has_breadcrumbs", TRUE) = FALSE
  /\ Html("heading_analysis", "multiple_h1", TRUE) = FALSE
  /\ Html("heading_analysis", "hierarchy_issues", <<"none">>) = << >>
  /\ Html("navigation_analysis", "duplicate_link_texts", 0) = 5
  /\ result.category_details["information_architecture"].score = 23

\* C9: the accessibility result lists exactly the stated rules whose condition
\* holds, in the stated order, with the stated severity and impact (coverage
\* of exactly 0.8 does not fire a11y_001); when all four fire the score is 0.
C9_AccessibilityRules ==
  Done =>
    LET d == result.category_details["accessibility"]
    IN /\ Reported(d.rules) = StatedFired(StatedA11y)
       /\ \A i \in 1..Len(d.rules) :
            d.rules[i].category = "accessibility" /\ ~d.rules[i].passed
       /\ Len(StatedFired(StatedA11y)) = 4
          => /\ d.score = 0
             /\ RuleIds(d.rules) = <<"a11y_001", "a11y_002", "a11y_003", "a11y_004">>

\* The scenario: coverage 0.5, no ARIA element, no landmark, low contrast.
C9_Witness ==
  /\ Done
  /\ Html("accessibility_analysis", "alt_text_coverage", 100) = 50
  /\ Html("accessibility_analysis", "aria_elements_count", 1) = 0
  /\ Html("accessibility_analysis", "landmark_roles_count", 1) = 0
  /\ Image("contrast_analysis", "is_low_contrast", FALSE) = TRUE
  /\ result.category_details["accessibility"].score = 0

\* C10: when form_count > 0 the form_ux result lists exactly the stated rules
\* whose condition holds, in the stated order, with the stated severity and
\* impact; form_004 fires iff 2 * input_candidates < input_count, input_count
\* read as 1 when absent.
C10_FormRules ==
  (Done /\ Html("form_analysis", "form_count", 0) > 0) =>
    LET d == result.category_details["form_ux"]
    IN /\ Reported(d.rules) = StatedFired(StatedForm)
       /\ \A i \in 1..Len(d.rules) :
            d.rules[i].category = "form_ux" /\ ~d.rules[i].passed

\* A form of two inputs whose input candidates are exactly half the inputs:
\* form_004 does not fire, nor does form_003, while form_001 and form_002 do.
C10_Witness ==
  /\ Done
  /\ Html("form_analysis", "form_count", 0) = 1
  /\ Html("form_analysis", "input_count", 1) = 2
  /\ Image("element_detection", "input_candidates", 0) = 1
  /\ Html("form_analysis", "unlabeled_count", 0) = 1
  /\ Html("form_analysis", "has_error_handling", TRUE) = FALSE
  /\ RuleIds(result.category_details["form_ux"].rules) = <<"form_001", "form_002">>

\* C11: the readability result lists exactly the stated rules whose condition
\* holds, in the stated order, with the stated severity and impact (a title of
\* exactly 60 characters does not fire read_002); read_001 and read_002 never
\* fire together, so at most five readability rules fire.
C11_ReadabilityRules ==
  Done =>
    LET d == result.category_details["readability"]
        ids == {d.rules[i].rule_id : i \in 1..Len(d.rules)}
    IN /\ Reported(d.rules) = StatedFired(StatedReadability)
       /\ \A i \in 1..Len(d.rules) :
            d.rules[i].category = "readability" /\ ~d.rules[i].passed
       /\ ~({"read_001", "read_002"} \subseteq ids)
       /\ Len(d.rules) <= 5

\* Five readability rules fire, read_002 among them, on a title of 61 characters.
C11_Witness ==
  /\ Done
  /\ Html("meta_analysis", "title_length", 0) = 61
  /\ RuleIds(result.category_details["readability"].rules)
       = <<"read_002", "read_003", "read_004", "read_005", "read_006">>
  /\ result.category_details["readability"].score = 5

\* C12: the CTA visibility result lists exactly the stated rules whose
\* condition holds, in the stated order, with the stated severity and impact
\* (exactly 2 button candidates do not fire cta_004); when all four fire the
\* score is exactly 0.
C12_CtaRules ==
  Done =>
    LET d == result.category_details["cta_visibility"]
    IN /\ Reported(d.rules) = StatedFired(StatedCTA)
       /\ \A i \in 1..Len(d.rules) :
            d.rules[i].category = "cta_visibility" /\ ~d.rules[i].passed
       /\ Len(StatedFired(StatedCTA)) = 4 => d.score = 0

\* All four CTA rules fire, on one button candidate.
C12_Witness ==
  /\ Done
  /\ Image("element_detection", "button_candidates", 0) = 1
  /\ RuleIds(result.category_details["cta_visibility"].rules)
       = <<"cta_001", "cta_002", "cta_003", "cta_004">>
  /\ result.category_details["cta_visibility"].score = 0

\* C13: the performance result lists exactly the stated rules whose condition
\* holds, in the stated order, with the stated severity and impact (exactly 10
\* images do not fire perf_002; total_images is read from the
\* accessibility_analysis namespace); the performance score is never below 1.
C13_PerformanceRules ==
  Done =>
    LET d == result.category_details["performance"]
    IN /\ Reported(d.rules) = StatedFired(StatedPerformance)
       /\ \A i \in 1..Len(d.rules) :
            d.rules[i].category = "performance" /\ ~d.rules[i].passed
       /\ d.score >= 1

\* All three performance rules fire and the score is 1.
C13_Witness ==
  /\ Done
  /\ Html("accessibility_analysis", "total_images", 0) = 11
  /\ RuleIds(result.category_details["performance"].rules)
       = <<"perf_001", "perf_002", "perf_003">>
  /\ result.category_details["performance"].score = 1

\* The stated rule ids of a category, in declaration order.
StatedTable(c) ==
  CASE c = "information_architecture" -> StatedIA
    [] c = "cta_visibility" -> StatedCTA
    [] c = "readability" -> StatedReadability
    [] c = "form_ux" -> StatedForm
    [] c = "accessibility" -> StatedA11y
    [] c = "performance" -> StatedPerformance

PositionIn(table, rule_id) == CHOOSE i \in 1..Len(table) : table[i].rule_id = rule_id

\* C14: the report's list of all violations is the concatenation of the six
\* categories' lists in the order IA, CTA, readability, form UX, accessibility,
\* performance; within a category the violations follow the declaration
\* order; every violation has passed = false, a negative impact and the
\* category of the evaluator that produced it.
C14_AllViolationsOrder ==
  Done =>
    /\ result.rules =
         result.category_details["information_architecture"].rules
           \o result.category_details["cta_visibility"].rules
           \o result.category_details["readability"].rules
           \o result.category_details["form_ux"].rules
           \o result.category_details["accessibility"].rules
           \o result.category_details["performance"].rules
    /\ \A c \in CategorySet :
         LET rs == result.category_details[c].rules
         IN /\ \A i \in 1..Len(rs) :
                 /\ rs[i].passed = FALSE
                 /\ rs[i].score_impact < 0
                 /\ rs[i].category = c
                 /\ \E k \in 1..Len(StatedTable(c)) : StatedTable(c)[k].rule_id = rs[i].rule_id
            /\ \A i, j \in 1..Len(rs) :
                 i < j => PositionIn(StatedTable(c), rs[i].rule_id)
                            < PositionIn(StatedTable(c), rs[j].rule_id)

\* Every category reports more than one violation.
C14_Witness ==
  /\ Done
  /\ \A c \in CategorySet : Len(result.category_details[c].rules) >= 2
  /\ result.rules[1].rule_id = "ia_001"
  /\ result.rules[Len(result.rules)].rule_id = "perf_003"

\* The violations of one severity, in the order of the list.
OfSeverity(rules, severity) == SelectSeq(rules, LAMBDA r : r.severity = severity)

\* C15: the first min(10, number of violations) recommendations are the
\* recommendation texts of the violations ordered high, then medium, then low,
\* each severity in the order of the list of all violations (earlier category
\* first, then declaration order).
C15_RankedBySeverity ==
  Done =>
    LET ranked == OfSeverity(result.rules, "high") \o OfSeverity(result.rules, "medium")
                    \o OfSeverity(result.rules, "low")
        n == IF Len(ranked) < 10 THEN Len(ranked) ELSE 10
    IN /\ Len(ranked) = Len(result.rules)
       /\ Len(result.recommendations) >= n
       /\ \A i \in 1..n : result.recommendations[i] = ranked[i].recommendation

\* More than 10 violations: the high ones of four categories lead, a low one
\* of the first category (ia_004) is cut off behind the medium ones.
C15_Witness ==
  /\ Done
  /\ Len(result.rules) > 10
  /\ result.rules[4].rule_id = "ia_004"
  /\ SubSeq(result.recommendations, 1, 5)
       = <<"rec_ia_001", "rec_cta_001", "rec_read_001", "rec_form_001", "rec_ia_002">>
  /\ ~InSeq("rec_ia_004", result.recommendations)

\* C16: the recommendations list has at most 10 entries and holds no text twice.
C16_AtMostTenNoDuplicate ==
  Done =>
    /\ Len(result.recommendations) <= 10
    /\ NoRepeat(result.recommendations)

\* 25 violations, of which 10 recommendations are kept.
C16_Witness ==
  /\ Done
  /\ Len(result.rules) = 25
  /\ Len(result.recommendations) = 10

GenericTexts == {"rec_generic_contrast", "rec_generic_top", "rec_generic_navigation"}

GenericPart(recommendations) == SelectSeq(recommendations, LAMBDA t : t \in GenericTexts)

\* C17 as stated: with fewer than 3 violations generic entries are appended
\* only until the list holds 3 entries, so with 1 or 2 violations the list has
\* exactly 3 entries; with 3 or more violations no generic entry is appended.
C17_AsStated ==
  Done =>
    /\ Len(result.rules) \in {1, 2} => Len(result.recommendations) = 3
    /\ Len(result.rules) >= 3 => GenericPart(result.recommendations) = << >>

\* C17 (amended): with fewer than 3 violations all three generic entries are
\* appended in pool order behind the violations' recommendations, so the list
\* has 3, 4 or 5 entries; with 3 or more violations no generic entry is
\* appended.
C17_BackfillAppendsWholePool ==
  Done =>
    LET n == Len(result.rules)
    IN /\ n < 3 =>
            /\ Len(result.recommendations) = n + 3
            /\ SubSeq(result.recommendations, n + 1, n + 3)
                 = <<"rec_generic_contrast", "rec_generic_top", "rec_generic_navigation">>
            /\ \A i \in 1..n : result.recommendations[i] \notin GenericTexts
       /\ n >= 3 => GenericPart(result.recommendations) = << >>

\* Two violations and five recommendations.
C17_Witness ==
  /\ Done
  /\ Len(result.rules) = 2
  /\ Len(result.recommendations) = 5
  /\ result.recommendations[3] = "rec_generic_contrast"

\* The default the input contract states for each feature key (a coverage of
\* 1.0 is 100 hundredths).
StatedDefault(key) ==
  CASE key \in {"has_h1", "multiple_h1", "has_breadcrumbs", "has_error_handling",
                "has_og_image", "has_cta_above_fold", "is_low_contrast",
                "is_cluttered"} -> FALSE
    [] key \in {"has_good_contrast", "has_sufficient_whitespace"} -> TRUE
    [] key \in {"hierarchy_issues", "button_texts"} -> << >>
    [] key = "input_count" -> 1
    [] key = "alt_text_coverage" -> 100
    [] key \in {"duplicate_link_texts", "form_count", "unlabeled_count",
                "required_fields", "aria_elements_count", "landmark_roles_count",
                "total_images", "title_length", "description_length",
                "structured_data_count", "avg_paragraph_length",
                "button_candidates", "input_candidates"} -> 0

\* The dictionary d with key set to v in its sub-dictionary ns.
WithKey(d, ns, key, v) ==
  LET sub == Get(d, ns, EmptyDict)
  IN [n \in DOMAIN d \cup {ns} |->
        IF n = ns
        THEN [k \in DOMAIN sub \cup {key} |-> IF k = key THEN v ELSE sub[k]]
        ELSE d[n]]

\* The dictionary d with the sub-dictionary ns holding every key the engine
\* reads from it, each at its stated default.
WithDefaultNamespace(d, side, ns) ==
  LET keys == {f[3] : f \in {g \in FeatureKeys : g[1] = side /\ g[2] = ns}}
  IN [n \in DOMAIN d \cup {ns} |->
        IF n = ns THEN [k \in keys |-> StatedDefault(k)] ELSE d[n]]

SideDict(side) == IF side = "html" THEN html_analysis ELSE image_analysis

AnalyzeWith(side, d) ==
  IF side = "html"
  THEN analyze(max_scores, d, image_analysis)
  ELSE analyze(max_scores, html_analysis, d)

KeyAbsent(f) == f[3] \notin DOMAIN Get(SideDict(f[1]), f[2], EmptyDict)

NamespaceAbsent(f) == f[2] \notin DOMAIN SideDict(f[1])

\* C18: for every feature key that is absent from the dictionaries, and for
\* every namespace that is absent as a whole, the report equals the report of
\* the dictionaries with the key (every key of the namespace) set to its
\* stated default.
C18_AbsentKeyIsStatedDefault ==
  Done =>
    \A f \in FeatureKeys :
      /\ KeyAbsent(f) =>
           result = AnalyzeWith(f[1], WithKey(SideDict(f[1]), f[2], f[3],
                                              StatedDefault(f[3])))
      /\ NamespaceAbsent(f) =>
           result = AnalyzeWith(f[1], WithDefaultNamespace(SideDict(f[1]), f[1], f[2]))

\* A form is present but its input_count, and the whole contrast namespace,
\* are missing.
C18_Witness ==
  /\ Done
  /\ "form_analysis" \in DOMAIN html_analysis
  /\ Get(html_analysis["form_analysis"], "form_count", 0) = 1
  /\ "input_count" \notin DOMAIN html_analysis["form_analysis"]
  /\ "contrast_analysis" \notin DOMAIN image_analysis
  /\ "form_002" \in {result.rules[i].rule_id : i \in 1..Len(result.rules)}

KeyPresent(side, ns, key) == key \in DOMAIN Get(SideDict(side), ns, EmptyDict)

NoKeyPresent == \A f \in FeatureKeys : ~KeyPresent(f[1], f[2], f[3])

\* The feature each rule's predicate reads.
StatedReads ==
  [ia_001 |-> <<"html", "heading_analysis", "has_h1">>,
   ia_002 |-> <<"html", "heading_analysis", "multiple_h1">>,
   ia_003 |-> <<"html", "heading_analysis", "hierarchy_issues">>,
   ia_004 |-> <<"html", "navigation_analysis", "has_breadcrumbs">>,
   ia_005 |-> <<"html", "navigation_analysis", "duplicate_link_texts">>,
   cta_001 |-> <<"image", "above_fold_analysis", "has_cta_above_fold">>,
   cta_002 |-> <<"image", "ocr_analysis", "button_texts">>,
   cta_003 |-> <<"image", "contrast_analysis", "has_good_contrast">>,
   cta_004 |-> <<"image", "element_detection", "button_candidates">>,
   read_001 |-> <<"html", "meta_analysis", "title_length">>,
   read_002 |-> <<"html", "meta_analysis", "title_length">>,
   read_003 |-> <<"html", "meta_analysis", "description_length">>,
   read_004 |-> <<"html", "content_analysis", "avg_paragraph_length">>,
   read_005 |-> <<"image", "visual_density", "is_cluttered">>,
   read_006 |-> <<"image", "visual_density", "has_sufficient_whitespace">>,
   form_001 |-> <<"html", "form_analysis", "unlabeled_count">>,
   form_002 |-> <<"html", "form_analysis", "has_error_handling">>,
   form_003 |-> <<"html", "form_analysis", "input_count">>,
   form_004 |-> <<"html", "form_analysis", "input_count">>,
   a11y_001 |-> <<"html", "accessibility_analysis", "alt_text_coverage">>,
   a11y_002 |-> <<"html", "accessibility_analysis", "aria_elements_count">>,
   a11y_003 |-> <<"html", "accessibility_analysis", "landmark_roles_count">>,
   a11y_004 |-> <<"image", "contrast_analysis", "is_low_contrast">>,
   perf_001 |-> <<"html", "meta_analysis", "structured_data_count">>,
   perf_002 |-> <<"html", "accessibility_analysis", "total_images">>,
   perf_003 |-> <<"html", "meta_analysis", "has_og_image">>]

ReadPresent(rule_id) ==
  KeyPresent(StatedReads[rule_id][1], StatedReads[rule_id][2], StatedReads[rule_id][3])

\* C19 as stated: a rule fires only when the feature it reads is present, and
\* with no feature present there is no violation and the total is 100.
C19_AsStated ==
  Done =>
    /\ \A i \in 1..Len(result.rules) : ReadPresent(result.rules[i].rule_id)
    /\ NoKeyPresent => result.rules = << >> /\ result.total_score = 100

\* The rules whose predicate is false on the default of the feature they read.
FiresOnlyWhenPresent ==
  {"ia_002", "ia_003", "ia_005", "cta_003", "read_002", "read_004", "read_005",
   "read_006", "form_001", "form_003", "a11y_001", "a11y_004", "perf_002"}

\* The rules whose predicate is true on the default of the feature they read.
FiresOnDefault ==
  <<"ia_001", "ia_004", "cta_001", "cta_002", "cta_004", "read_001", "read_003",
    "a11y_002", "a11y_003", "perf_001", "perf_003">>

\* C19 (amended): the rules whose predicate is false on the default fire only
\* when the feature they read is present, a form rule fires only when
\* form_count is present, and with no feature present exactly the eleven rules
\* whose predicate is true on the default fire and the total is 63.
C19_FiresOnAbsentOnlyByDefault ==
  Done =>
    /\ \A i \in 1..Len(result.rules) :
         LET id == result.rules[i].rule_id
         IN /\ id \in FiresOnlyWhenPresent => ReadPresent(id)
            /\ result.rules[i].category = "form_ux"
                 => KeyPresent("html", "form_analysis", "form_count")
    /\ NoKeyPresent =>
         /\ RuleIds(result.rules) = FiresOnDefault
         /\ result.total_score = 63

\* No feature is present and the report counts eleven violations.
C19_Witness ==
  /\ Done
  /\ NoKeyPresent
  /\ Len(result.rules) = 11
  /\ result.total_score = 63

ReportFields == {"scores", "rules", "recommendations", "total_score", "category_details"}

\* C20: whatever keys and namespaces are missing, analyze ends with a report
\* and never with the re-raised exception.
C20_NeverRaises ==
  /\ pc # "failed"
  /\ Done => DOMAIN result = ReportFields

\* A report on dictionaries in which one namespace is missing as a whole and
\* another misses one of its keys.
C20_Witness ==
  /\ Done
  /\ DOMAIN result = ReportFields
  /\ "heading_analysis" \notin DOMAIN html_analysis
  /\ "meta_analysis" \in DOMAIN html_analysis
  /\ "title_length" \notin DOMAIN html_analysis["meta_analysis"]
  /\ "has_og_image" \in DOMAIN html_analysis["meta_analysis"]

\* The dictionary of one side cut down to the keys category c's rules read.
OnlyReadBy(c, side, d) ==
  LET reads == {f \in ReadSet(c) : f[1] = side}
  IN [ns \in {f[2] : f \in reads} \cap DOMAIN d |->
        [k \in {f[3] : f \in {g \in reads : g[2] = ns}} \cap DOMAIN d[ns] |-> d[ns][k]]]

\* C25: each category's result is the result of its evaluator on the keys its
\* rules read alone, whatever the other keys hold, so two inputs that agree on
\* those keys give the same result for the category; the CTA result does not
\* depend on is_low_contrast nor the accessibility result on has_good_contrast.
C25_EvaluatorsIndependent ==
  Done =>
    \A c \in CategorySet :
      result.category_details[c]
        = evaluate(c, max_scores, OnlyReadBy(c, "html", html_analysis),
                   OnlyReadBy(c, "image", image_analysis))

\* The two contrast keys contradict each other: the CTA rule follows
\* has_good_contrast and the accessibility rule follows is_low_contrast.
C25_Witness ==
  /\ Done
  /\ Image("contrast_analysis", "has_good_contrast", FALSE) = TRUE
  /\ Image("contrast_analysis", "is_low_contrast", FALSE) = TRUE
  /\ "cta_003" \notin {result.rules[i].rule_id : i \in 1..Len(result.rules)}
  /\ "a11y_004" \in {result.rules[i].rule_id : i \in 1..Len(result.rules)}

\* The least score of each category as stated.
StatedMin ==
  [information_architecture |-> 13,
   cta_visibility |-> 0,
   readability |-> 2,
   form_ux |-> 0,
   accessibility |-> 0,
   performance |-> 1]

\* The maximum of category c plus the impacts of its fired rules, before the
\* clamp.
RawSum(c) == max_scores[c] + SumImpacts(result.category_details[c].rules)

\* C29: no category scores below its stated minimum and the total is never
\* below 16; only accessibility can have a negative sum of maximum and
\* impacts; the 26 rules never all fire on one input.
C29_ScoreFloor ==
  Done =>
    /\ \A c \in CategorySet : result.category_details[c].score >= StatedMin[c]
    /\ result.total_score >= 16
    /\ \A c \in CategorySet : RawSum(c) < 0 => c = "accessibility"
    /\ Len(result.rules) < 26

\* Every category at its minimum at once, accessibility held at 0 by the clamp.
C29_Witness ==
  /\ Done
  /\ \A c \in CategorySet : result.category_details[c].score = StatedMin[c]
  /\ result.total_score = 16
  /\ RawSum("accessibility") < 0
  /\ Len(result.rules) = 25

Summarized == pc = "summarized"

WellFormed(ar) ==
  /\ {"total_score", "categories", "recommendations"} \subseteq DOMAIN ar
  /\ \A i \in 1..Len(ar["categories"]) : ar["categories"][i][1] \in CategorySet

\* C21: the level is excellent exactly from 80, good exactly from 60 to 79,
\* fair exactly from 40 to 59 and poor exactly below 40.
C21_TierByTotal ==
  Summarized /\ WellFormed(analysis_result) =>
    LET t == analysis_result["total_score"]
    IN /\ summary.overall_score = t
       /\ summary.score_level = "excellent" <=> t >= 80
       /\ summary.score_level = "good" <=> (60 <= t /\ t < 80)
       /\ summary.score_level = "fair" <=> (40 <= t /\ t < 60)
       /\ summary.score_level = "poor" <=> t < 40

\* A total of exactly 80 is summarized as excellent.
C21_Witness ==
  /\ Summarized
  /\ WellFormed(analysis_result)
  /\ analysis_result["total_score"] = 80
  /\ summary.score_level = "excellent"

\* The items of the given categories, and whether the percentage of an item
\* (score / max x 100, the maximum as stated) is below p, at least p, or at
\* least that of another item.
GivenItems == analysis_result["categories"]

PctBelow(item, p) == item[2] * 100 < p * StatedMax[item[1]]

PctAtLeast(item, p) == item[2] * 100 >= p * StatedMax[item[1]]

PctNotBelow(a, b) == a[2] * StatedMax[b[1]] >= b[2] * StatedMax[a[1]]

ItemOf(entry) == <<entry.category, entry.score>>

\* entries lists given items, each at most once, in non-increasing percentage.
RankedItems(entries) ==
  /\ \A i \in 1..Len(entries) :
       /\ \E j \in 1..Len(GivenItems) : GivenItems[j] = ItemOf(entries[i])
       /\ entries[i].max_score = StatedMax[entries[i].category]
  /\ \A i, j \in 1..Len(entries) :
       /\ entries[i].category = entries[j].category => i = j
       /\ i < j => PctNotBelow(ItemOf(entries[i]), ItemOf(entries[j]))

ListedIn(entries, item) == \E i \in 1..Len(entries) : ItemOf(entries[i]) = item

Least(a, b) == IF a < b THEN a ELSE b

\* C22: the weaknesses are categories below 50 percent, in non-increasing
\* percentage, three of them when more than three are below 50 percent, and
\* then every omitted one is no higher than every reported one.
C22_WeaknessesHighestBelow50 ==
  Summarized /\ WellFormed(analysis_result) =>
    LET below == {j \in 1..Len(GivenItems) : PctBelow(GivenItems[j], 50)}
    IN /\ RankedItems(summary.weaknesses)
       /\ \A i \in 1..Len(summary.weaknesses) : PctBelow(ItemOf(summary.weaknesses[i]), 50)
       /\ Len(summary.weaknesses) = Least(3, Cardinality(below))
       /\ \A j \in below :
            ~ListedIn(summary.weaknesses, GivenItems[j]) =>
              \A i \in 1..Len(summary.weaknesses) :
                PctNotBelow(ItemOf(summary.weaknesses[i]), GivenItems[j])

\* Five categories are below 50 percent; one at 0 percent is left out while
\* the three reported are all above it.
C22_Witness ==
  /\ Summarized
  /\ WellFormed(analysis_result)
  /\ Cardinality({j \in 1..Len(GivenItems) : PctBelow(GivenItems[j], 50)}) = 5
  /\ Len(summary.weaknesses) = 3
  /\ \E j \in 1..Len(GivenItems) :
       /\ GivenItems[j][2] = 0
       /\ ~ListedIn(summary.weaknesses, GivenItems[j])
  /\ \A i \in 1..3 : summary.weaknesses[i].score > 0

\* C23: the strengths are categories at 70 percent or more, in non-increasing
\* percentage, the first three of them; no category is a strength and a
\* weakness.
C23_StrengthsFrom70 ==
  Summarized /\ WellFormed(analysis_result) =>
    LET atleast == {j \in 1..Len(GivenItems) : PctAtLeast(GivenItems[j], 70)}
    IN /\ RankedItems(summary.strengths)
       /\ \A i \in 1..Len(summary.strengths) : PctAtLeast(ItemOf(summary.strengths[i]), 70)
       /\ Len(summary.strengths) = Least(3, Cardinality(atleast))
       /\ \A j \in atleast :
            ~ListedIn(summary.strengths, GivenItems[j]) =>
              \A i \in 1..Len(summary.strengths) :
                PctNotBelow(ItemOf(summary.strengths[i]), GivenItems[j])
       /\ \A i \in 1..Len(summary.strengths), j \in 1..Len(summary.weaknesses) :
            summary.strengths[i].category # summary.weaknesses[j].category

\* A category at exactly 70 percent (21 of 30) is a strength, another is a
\* weakness.
C23_Witness ==
  /\ Summarized
  /\ WellFormed(analysis_result)
  /\ \E i \in 1..Len(summary.strengths) :
       /\ summary.strengths[i].category = "information_architecture"
       /\ summary.strengths[i].score = 21
  /\ Len(summary.weaknesses) > 0

\* C24: the top recommendations are the first five of the given list in the
\* same order; a summary holds at most 3 strengths, 3 weaknesses and 5
\* recommendations; the given dictionary is left as it was.
C24_TopFiveAndFrame ==
  /\ [](Summarized =>
          /\ Len(summary.strengths) <= 3
          /\ Len(summary.weaknesses) <= 3
          /\ Len(summary.top_recommendations) <= 5
          /\ WellFormed(analysis_result) =>
               LET recs == analysis_result["recommendations"]
               IN /\ Len(summary.top_recommendations) = Least(5, Len(recs))
                  /\ \A i \in 1..Len(summary.top_recommendations) :
                       summary.top_recommendations[i] = recs[i])
  /\ [][pc = "loaded" => analysis_result' = analysis_result]_vars

\* Ten recommendations given, five of them in the summary.
C24_Witness ==
  /\ Summarized
  /\ WellFormed(analysis_result)
  /\ Len(analysis_result["recommendations"]) = 10
  /\ Len(summary.top_recommendations) = 5
  /\ summary.top_recommendations[5] = analysis_result["recommendations"][5]

SummaryFields ==
  {"overall_score", "score_level", "score_message", "strengths", "weaknesses",
   "top_recommendations"}

\* C30: every call returns a summary; for a result that lacks total_score,
\* categories or recommendations, or names an unknown category, it is the
\* error summary: score 0, level "error", no strengths, no weaknesses and the
\* one failure message.
C30_ErrorSummary ==
  Summarized =>
    /\ DOMAIN summary = SummaryFields
    /\ ~WellFormed(analysis_result) =>
         /\ summary.overall_score = 0
         /\ summary.score_level = "error"
         /\ summary.strengths = << >>
         /\ summary.weaknesses = << >>
         /\ summary.top_recommendations = <<"rec_summary_failed">>
    /\ WellFormed(analysis_result) => summary.score_level # "error"

\* A result with six known categories and a seventh unknown one.
C30_Witness ==
  /\ Summarized
  /\ {"total_score", "categories", "recommendations"} \subseteq DOMAIN analysis_result
  /\ Len(analysis_result["categories"]) = 7
  /\ analysis_result["categories"][7][1] = "seo"
  /\ Len(analysis_result["recommendations"]) = 7
  /\ summary.score_level = "error"
  /\ summary.top_recommendations = <<"rec_summary_failed">>

\* C28: however the calls interleave, the table of maxima stays as
\* constructed, every category result a call has computed is the one a call
\* running alone computes for the call's dictionaries, and so is the report it
\* returns.
C28_CallsDoNotInterfere ==
  /\ max_scores = InitMaxScores
  /\ \A c \in Callers :
       /\ \A i \in 1..Len(calls[c].results) :
            calls[c].results[i]
              = evaluate(Categories[i], InitMaxScores, calls[c].html, calls[c].image)
       /\ calls[c].state = "returned" =>
            calls[c].report = analyze(InitMaxScores, calls[c].html, calls[c].image)

\* One call has returned a report with 25 violations while another call, on
\* other dictionaries, is between two evaluators.
C28_Witness ==
  \E c, d \in Callers :
    /\ c # d
    /\ calls[c].state = "returned"
    /\ Len(calls[c].report.rules) = 25
    /\ calls[d].state = "running"
    /\ Len(calls[d].results) = 3
    /\ calls[d].html # calls[c].html

\* The request has reached the engine or gone beyond it.
EngineRun == pc \in {"done", "succeeded"}

\* No page was captured for request r: its browser did not start, or its
\* capture raised.
NoPageCaptured(r) == requests[r].browser = "unavailable" \/ requests[r].raised

\* C26 as stated: when the browser did not start or the capture failed, the
\* engine is not run for the request and the request does not end in a result.
C26_NoScoreWithoutCapture ==
  \A r \in Requests :
    NoPageCaptured(r) =>
      /\ ~(running = r /\ EngineRun)
      /\ requests[r].at # "succeeded"

FiredIn(report) == {report.rules[i].rule_id : i \in 1..Len(report.rules)}

WithoutNamespaces(d, dropped) == [ns \in DOMAIN d \ dropped |-> d[ns]]

\* C27 as stated: the sub-map of an image sub-analysis that failed holds the
\* stated defaults, and the report holds no violation that the report for the
\* dictionaries without that sub-map does not hold.
C27_FallbackIsPermissive ==
  pc \in {"received", "done", "succeeded"} =>
    /\ \A ns \in requests[running].failing :
         \A k \in DOMAIN image_analysis[ns] : image_analysis[ns][k] = StatedDefault(k)
    /\ EngineRun =>
         FiredIn(result) \subseteq
           FiredIn(analyze(max_scores, html_analysis,
                           WithoutNamespaces(image_analysis, requests[running].failing)))

====
